---- MODULE Spec2Model ----
(***************************************************************************)
(* Model of the bounded breadth-first crawler of DUREX EXERCISE/           *)
(* durex_scraper.py: clean_url, same_domain, build_robot_parser,           *)
(* extract_content, crawl_site, save_csv and main; and of scrape_books of  *)
(* BOOKS EXERCISE/bookscraper.py.  The two programs are independent: each  *)
(* specification below runs one of them and leaves the other's variables   *)
(* at rest.                                                                *)
(*                                                                         *)
(* Text is a sequence of characters, so that urlparse, geturl, urljoin,    *)
(* quote, unquote, str.endswith, str.lower and str.replace are computed    *)
(* character by character, as CPython 3.11 computes them.  A call that     *)
(* raises is a value of the model: ValueError for a call that returns a    *)
(* text, the field raises for urlparse.                                    *)
(***************************************************************************)
EXTENDS Integers, Sequences, FiniteSets, TLC

(***************************************************************************)
(* Bounds of the model.                                                    *)
(***************************************************************************)
\* largest --max-pages value explored besides the end-to-end value 5
MaxPagesBound == 2
\* largest --top value explored
MaxTop == 3
\* longest list of rows handed to save_csv in the reporting specification
MaxRows == 3

(***************************************************************************)
(* Text.  A text is a sequence of characters.  A character is written as   *)
(* a one-character string when it is a printable Latin-1 character other   *)
(* than the backquote, as "\t", "\n", "\f", "\r" for those controls, and   *)
(* by its decimal character reference "&#N;" (N its code point) for every  *)
(* other Unicode scalar value: "&#8364;" is the euro sign.                 *)
(***************************************************************************)
Digits == {"0","1","2","3","4","5","6","7","8","9"}

\* F applied to the value of v, which is computed once
With(v, F(_)) == CHOOSE r \in {F(x) : x \in {v}} : TRUE

\* the characters of code points 0..255, in order
Latin1 ==
  <<"&#0;", "&#1;", "&#2;", "&#3;", "&#4;", "&#5;", "&#6;", "&#7;", "&#8;",
    "\t", "\n", "&#11;", "\f", "\r", "&#14;", "&#15;", "&#16;", "&#17;",
    "&#18;", "&#19;", "&#20;", "&#21;", "&#22;", "&#23;", "&#24;", "&#25;",
    "&#26;", "&#27;", "&#28;", "&#29;", "&#30;", "&#31;", " ", "!", "\"",
    "#", "$", "%", "&", "'", "(", ")", "*", "+", ",", "-", ".", "/", "0",
    "1", "2", "3", "4", "5", "6", "7", "8", "9", ":", ";", "<", "=", ">",
    "?", "@", "A", "B", "C", "D", "E", "F", "G", "H", "I", "J", "K", "L",
    "M", "N", "O", "P", "Q", "R", "S", "T", "U", "V", "W", "X", "Y", "Z",
    "[", "\\", "]", "^", "_", "&#96;", "a", "b", "c", "d", "e", "f", "g",
    "h", "i", "j", "k", "l", "m", "n", "o", "p", "q", "r", "s", "t", "u",
    "v", "w", "x", "y", "z", "{", "|", "}", "~", "&#127;", "&#128;",
    "&#129;", "&#130;", "&#131;", "&#132;", "&#133;", "&#134;", "&#135;",
    "&#136;", "&#137;", "&#138;", "&#139;", "&#140;", "&#141;", "&#142;",
    "&#143;", "&#144;", "&#145;", "&#146;", "&#147;", "&#148;", "&#149;",
    "&#150;", "&#151;", "&#152;", "&#153;", "&#154;", "&#155;", "&#156;",
    "&#157;", "&#158;", "&#159;", "&#160;", "¡", "¢", "£", "¤", "¥", "¦",
    "§", "¨", "©", "ª", "«", "¬", "&#173;", "®", "¯", "°", "±", "²", "³",
    "´", "µ", "¶", "·", "¸", "¹", "º", "»", "¼", "½", "¾", "¿", "À", "Á",
    "Â", "Ã", "Ä", "Å", "Æ", "Ç", "È", "É", "Ê", "Ë", "Ì", "Í", "Î", "Ï",
    "Ð", "Ñ", "Ò", "Ó", "Ô", "Õ", "Ö", "×", "Ø", "Ù", "Ú", "Û", "Ü", "Ý",
    "Þ", "ß", "à", "á", "â", "ã", "ä", "å", "æ", "ç", "è", "é", "ê", "ë",
    "ì", "í", "î", "ï", "ð", "ñ", "ò", "ó", "ô", "õ", "ö", "÷", "ø", "ù",
    "ú", "û", "ü", "ý", "þ", "ÿ">>

\* the code point of each character of Latin1
Latin1Ord ==
    [c \in {Latin1[i] : i \in 1..256} |->
        (CHOOSE i \in 1..256 : Latin1[i] = c) - 1]

\* the character reference of code point n
CharRef(n) == "&#" \o ToString(n) \o ";"

\* chr(n)
Chr(n) == IF n < 256 THEN Latin1[n + 1] ELSE CharRef(n)

\* ord(c)
Ord(c) ==
    IF c \in DOMAIN Latin1Ord THEN Latin1Ord[c]
    ELSE CHOOSE n \in 256..1114111 : CharRef(n) = c

\* n is one of lo, lo + step, ..., hi for a range r = <<lo, hi, step, ...>>
InRange(n, r) == r[1] <= n /\ n <= r[2] /\ (n - r[1]) % r[3] = 0

\* the simple lower-case mapping of the Unicode character database behind
\* str.lower, for the characters above U+007F: <<lo, hi, step, delta>>
\* maps each of lo, lo + step, ..., hi to itself plus delta
LowerRanges ==
  {<<192, 214, 1, 32>>, <<216, 222, 1, 32>>, <<256, 302, 2, 1>>,
    <<306, 310, 2, 1>>, <<313, 327, 2, 1>>, <<330, 374, 2, 1>>,
    <<376, 376, 1, -121>>, <<377, 381, 2, 1>>, <<385, 385, 1, 210>>,
    <<386, 388, 2, 1>>, <<390, 390, 1, 206>>, <<391, 391, 1, 1>>,
    <<393, 394, 1, 205>>, <<395, 395, 1, 1>>, <<398, 398, 1, 79>>,
    <<399, 399, 1, 202>>, <<400, 400, 1, 203>>, <<401, 401, 1, 1>>,
    <<403, 403, 1, 205>>, <<404, 404, 1, 207>>, <<406, 406, 1, 211>>,
    <<407, 407, 1, 209>>, <<408, 408, 1, 1>>, <<412, 412, 1, 211>>,
    <<413, 413, 1, 213>>, <<415, 415, 1, 214>>, <<416, 420, 2, 1>>,
    <<422, 422, 1, 218>>, <<423, 423, 1, 1>>, <<425, 425, 1, 218>>,
    <<428, 428, 1, 1>>, <<430, 430, 1, 218>>, <<431, 431, 1, 1>>,
    <<433, 434, 1, 217>>, <<435, 437, 2, 1>>, <<439, 439, 1, 219>>,
    <<440, 440, 1, 1>>, <<444, 444, 1, 1>>, <<452, 452, 1, 2>>,
    <<453, 453, 1, 1>>, <<455, 455, 1, 2>>, <<456, 456, 1, 1>>,
    <<458, 458, 1, 2>>, <<459, 475, 2, 1>>, <<478, 494, 2, 1>>,
    <<497, 497, 1, 2>>, <<498, 500, 2, 1>>, <<502, 502, 1, -97>>,
    <<503, 503, 1, -56>>, <<504, 542, 2, 1>>, <<544, 544, 1, -130>>,
    <<546, 562, 2, 1>>, <<570, 570, 1, 10795>>, <<571, 571, 1, 1>>,
    <<573, 573, 1, -163>>, <<574, 574, 1, 10792>>, <<577, 577, 1, 1>>,
    <<579, 579, 1, -195>>, <<580, 580, 1, 69>>, <<581, 581, 1, 71>>,
    <<582, 590, 2, 1>>, <<880, 882, 2, 1>>, <<886, 886, 1, 1>>,
    <<895, 895, 1, 116>>, <<902, 902, 1, 38>>, <<904, 906, 1, 37>>,
    <<908, 908, 1, 64>>, <<910, 911, 1, 63>>, <<913, 929, 1, 32>>,
    <<932, 939, 1, 32>>, <<975, 975, 1, 8>>, <<984, 1006, 2, 1>>,
    <<1012, 1012, 1, -60>>, <<1015, 1015, 1, 1>>, <<1017, 1017, 1, -7>>,
    <<1018, 1018, 1, 1>>, <<1021, 1023, 1, -130>>, <<1024, 1039, 1, 80>>,
    <<1040, 1071, 1, 32>>, <<1120, 1152, 2, 1>>, <<1162, 1214, 2, 1>>,
    <<1216, 1216, 1, 15>>, <<1217, 1229, 2, 1>>, <<1232, 1326, 2, 1>>,
    <<1329, 1366, 1, 48>>, <<4256, 4293, 1, 7264>>,
    <<4295, 4295, 1, 7264>>, <<4301, 4301, 1, 7264>>,
    <<5024, 5103, 1, 38864>>, <<5104, 5109, 1, 8>>,
    <<7312, 7354, 1, -3008>>, <<7357, 7359, 1, -3008>>,
    <<7680, 7828, 2, 1>>, <<7838, 7838, 1, -7615>>, <<7840, 7934, 2, 1>>,
    <<7944, 7951, 1, -8>>, <<7960, 7965, 1, -8>>, <<7976, 7983, 1, -8>>,
    <<7992, 7999, 1, -8>>, <<8008, 8013, 1, -8>>, <<8025, 8031, 2, -8>>,
    <<8040, 8047, 1, -8>>, <<8072, 8079, 1, -8>>, <<8088, 8095, 1, -8>>,
    <<8104, 8111, 1, -8>>, <<8120, 8121, 1, -8>>, <<8122, 8123, 1, -74>>,
    <<8124, 8124, 1, -9>>, <<8136, 8139, 1, -86>>, <<8140, 8140, 1, -9>>,
    <<8152, 8153, 1, -8>>, <<8154, 8155, 1, -100>>, <<8168, 8169, 1, -8>>,
    <<8170, 8171, 1, -112>>, <<8172, 8172, 1, -7>>,
    <<8184, 8185, 1, -128>>, <<8186, 8187, 1, -126>>,
    <<8188, 8188, 1, -9>>, <<8486, 8486, 1, -7517>>,
    <<8490, 8490, 1, -8383>>, <<8491, 8491, 1, -8262>>,
    <<8498, 8498, 1, 28>>, <<8544, 8559, 1, 16>>, <<8579, 8579, 1, 1>>,
    <<9398, 9423, 1, 26>>, <<11264, 11311, 1, 48>>, <<11360, 11360, 1, 1>>,
    <<11362, 11362, 1, -10743>>, <<11363, 11363, 1, -3814>>,
    <<11364, 11364, 1, -10727>>, <<11367, 11371, 2, 1>>,
    <<11373, 11373, 1, -10780>>, <<11374, 11374, 1, -10749>>,
    <<11375, 11375, 1, -10783>>, <<11376, 11376, 1, -10782>>,
    <<11378, 11378, 1, 1>>, <<11381, 11381, 1, 1>>,
    <<11390, 11391, 1, -10815>>, <<11392, 11490, 2, 1>>,
    <<11499, 11501, 2, 1>>, <<11506, 11506, 1, 1>>, <<42560, 42604, 2, 1>>,
    <<42624, 42650, 2, 1>>, <<42786, 42798, 2, 1>>, <<42802, 42862, 2, 1>>,
    <<42873, 42875, 2, 1>>, <<42877, 42877, 1, -35332>>,
    <<42878, 42886, 2, 1>>, <<42891, 42891, 1, 1>>,
    <<42893, 42893, 1, -42280>>, <<42896, 42898, 2, 1>>,
    <<42902, 42920, 2, 1>>, <<42922, 42922, 1, -42308>>,
    <<42923, 42923, 1, -42319>>, <<42924, 42924, 1, -42315>>,
    <<42925, 42925, 1, -42305>>, <<42926, 42926, 1, -42308>>,
    <<42928, 42928, 1, -42258>>, <<42929, 42929, 1, -42282>>,
    <<42930, 42930, 1, -42261>>, <<42931, 42931, 1, 928>>,
    <<42932, 42946, 2, 1>>, <<42948, 42948, 1, -48>>,
    <<42949, 42949, 1, -42307>>, <<42950, 42950, 1, -35384>>,
    <<42951, 42953, 2, 1>>, <<42960, 42960, 1, 1>>, <<42966, 42968, 2, 1>>,
    <<42997, 42997, 1, 1>>, <<65313, 65338, 1, 32>>,
    <<66560, 66599, 1, 40>>, <<66736, 66771, 1, 40>>,
    <<66928, 66938, 1, 39>>, <<66940, 66954, 1, 39>>,
    <<66956, 66962, 1, 39>>, <<66964, 66965, 1, 39>>,
    <<68736, 68786, 1, 64>>, <<71840, 71871, 1, 32>>,
    <<93760, 93791, 1, 32>>, <<125184, 125217, 1, 34>>}

\* ignorable: the characters str.lower skips when it looks for the
\* neighbours of a capital sigma (Case_Ignorable); cased: the cased
\* characters that are not case-ignorable; each range is <<lo, hi, step>>
CaseRanges ==
  [ignorable |->
   {<<39, 39, 1>>, <<46, 46, 1>>, <<58, 58, 1>>, <<94, 96, 2>>,
    <<168, 168, 1>>, <<173, 175, 2>>, <<180, 180, 1>>, <<183, 184, 1>>,
    <<688, 879, 1>>, <<884, 885, 1>>, <<890, 890, 1>>, <<900, 901, 1>>,
    <<903, 903, 1>>, <<1155, 1161, 1>>, <<1369, 1369, 1>>,
    <<1375, 1375, 1>>, <<1425, 1469, 1>>, <<1471, 1473, 2>>,
    <<1474, 1476, 2>>, <<1477, 1479, 2>>, <<1524, 1524, 1>>,
    <<1536, 1541, 1>>, <<1552, 1562, 1>>, <<1564, 1564, 1>>,
    <<1600, 1600, 1>>, <<1611, 1631, 1>>, <<1648, 1648, 1>>,
    <<1750, 1757, 1>>, <<1759, 1768, 1>>, <<1770, 1773, 1>>,
    <<1807, 1809, 2>>, <<1840, 1866, 1>>, <<1958, 1968, 1>>,
    <<2027, 2037, 1>>, <<2042, 2042, 1>>, <<2045, 2045, 1>>,
    <<2070, 2093, 1>>, <<2137, 2139, 1>>, <<2184, 2184, 1>>,
    <<2192, 2193, 1>>, <<2200, 2207, 1>>, <<2249, 2306, 1>>,
    <<2362, 2364, 2>>, <<2369, 2376, 1>>, <<2381, 2381, 1>>,
    <<2385, 2391, 1>>, <<2402, 2403, 1>>, <<2417, 2417, 1>>,
    <<2433, 2433, 1>>, <<2492, 2492, 1>>, <<2497, 2500, 1>>,
    <<2509, 2509, 1>>, <<2530, 2531, 1>>, <<2558, 2558, 1>>,
    <<2561, 2562, 1>>, <<2620, 2620, 1>>, <<2625, 2626, 1>>,
    <<2631, 2632, 1>>, <<2635, 2637, 1>>, <<2641, 2641, 1>>,
    <<2672, 2673, 1>>, <<2677, 2677, 1>>, <<2689, 2690, 1>>,
    <<2748, 2748, 1>>, <<2753, 2757, 1>>, <<2759, 2760, 1>>,
    <<2765, 2765, 1>>, <<2786, 2787, 1>>, <<2810, 2815, 1>>,
    <<2817, 2817, 1>>, <<2876, 2876, 1>>, <<2879, 2881, 2>>,
    <<2882, 2884, 1>>, <<2893, 2893, 1>>, <<2901, 2902, 1>>,
    <<2914, 2915, 1>>, <<2946, 2946, 1>>, <<3008, 3008, 1>>,
    <<3021, 3021, 1>>, <<3072, 3072, 1>>, <<3076, 3076, 1>>,
    <<3132, 3134, 2>>, <<3135, 3136, 1>>, <<3142, 3144, 1>>,
    <<3146, 3149, 1>>, <<3157, 3158, 1>>, <<3170, 3171, 1>>,
    <<3201, 3201, 1>>, <<3260, 3260, 1>>, <<3263, 3263, 1>>,
    <<3270, 3270, 1>>, <<3276, 3277, 1>>, <<3298, 3299, 1>>,
    <<3328, 3329, 1>>, <<3387, 3388, 1>>, <<3393, 3396, 1>>,
    <<3405, 3405, 1>>, <<3426, 3427, 1>>, <<3457, 3457, 1>>,
    <<3530, 3530, 1>>, <<3538, 3540, 1>>, <<3542, 3542, 1>>,
    <<3633, 3633, 1>>, <<3636, 3642, 1>>, <<3654, 3662, 1>>,
    <<3761, 3761, 1>>, <<3764, 3772, 1>>, <<3782, 3784, 2>>,
    <<3785, 3789, 1>>, <<3864, 3865, 1>>, <<3893, 3897, 2>>,
    <<3953, 3966, 1>>, <<3968, 3972, 1>>, <<3974, 3975, 1>>,
    <<3981, 3991, 1>>, <<3993, 4028, 1>>, <<4038, 4038, 1>>,
    <<4141, 4144, 1>>, <<4146, 4151, 1>>, <<4153, 4154, 1>>,
    <<4157, 4158, 1>>, <<4184, 4185, 1>>, <<4190, 4192, 1>>,
    <<4209, 4212, 1>>, <<4226, 4226, 1>>, <<4229, 4230, 1>>,
    <<4237, 4237, 1>>, <<4253, 4253, 1>>, <<4348, 4348, 1>>,
    <<4957, 4959, 1>>, <<5906, 5908, 1>>, <<5938, 5939, 1>>,
    <<5970, 5971, 1>>, <<6002, 6003, 1>>, <<6068, 6069, 1>>,
    <<6071, 6077, 1>>, <<6086, 6086, 1>>, <<6089, 6099, 1>>,
    <<6103, 6103, 1>>, <<6109, 6109, 1>>, <<6155, 6159, 1>>,
    <<6211, 6211, 1>>, <<6277, 6278, 1>>, <<6313, 6313, 1>>,
    <<6432, 6434, 1>>, <<6439, 6440, 1>>, <<6450, 6450, 1>>,
    <<6457, 6459, 1>>, <<6679, 6680, 1>>, <<6683, 6683, 1>>,
    <<6742, 6744, 2>>, <<6745, 6750, 1>>, <<6752, 6754, 2>>,
    <<6757, 6764, 1>>, <<6771, 6780, 1>>, <<6783, 6783, 1>>,
    <<6823, 6823, 1>>, <<6832, 6862, 1>>, <<6912, 6915, 1>>,
    <<6964, 6966, 2>>, <<6967, 6970, 1>>, <<6972, 6972, 1>>,
    <<6978, 6978, 1>>, <<7019, 7027, 1>>, <<7040, 7041, 1>>,
    <<7074, 7077, 1>>, <<7080, 7081, 1>>, <<7083, 7085, 1>>,
    <<7142, 7144, 2>>, <<7145, 7145, 1>>, <<7149, 7151, 2>>,
    <<7152, 7153, 1>>, <<7212, 7219, 1>>, <<7222, 7223, 1>>,
    <<7288, 7293, 1>>, <<7376, 7378, 1>>, <<7380, 7392, 1>>,
    <<7394, 7400, 1>>, <<7405, 7405, 1>>, <<7412, 7412, 1>>,
    <<7416, 7417, 1>>, <<7468, 7530, 1>>, <<7544, 7544, 1>>,
    <<7579, 7679, 1>>, <<8125, 8127, 2>>, <<8128, 8129, 1>>,
    <<8141, 8143, 1>>, <<8157, 8159, 1>>, <<8173, 8175, 1>>,
    <<8189, 8190, 1>>, <<8203, 8207, 1>>, <<8216, 8217, 1>>,
    <<8228, 8228, 1>>, <<8231, 8231, 1>>, <<8234, 8238, 1>>,
    <<8288, 8292, 1>>, <<8294, 8303, 1>>, <<8305, 8305, 1>>,
    <<8319, 8319, 1>>, <<8336, 8348, 1>>, <<8400, 8432, 1>>,
    <<11388, 11389, 1>>, <<11503, 11505, 1>>, <<11631, 11631, 1>>,
    <<11647, 11647, 1>>, <<11744, 11775, 1>>, <<11823, 11823, 1>>,
    <<12293, 12293, 1>>, <<12330, 12333, 1>>, <<12337, 12341, 1>>,
    <<12347, 12347, 1>>, <<12441, 12446, 1>>, <<12540, 12542, 1>>,
    <<40981, 40981, 1>>, <<42232, 42237, 1>>, <<42508, 42508, 1>>,
    <<42607, 42610, 1>>, <<42612, 42621, 1>>, <<42623, 42623, 1>>,
    <<42652, 42655, 1>>, <<42736, 42737, 1>>, <<42752, 42785, 1>>,
    <<42864, 42864, 1>>, <<42888, 42890, 1>>, <<42994, 42996, 1>>,
    <<43000, 43001, 1>>, <<43010, 43010, 1>>, <<43014, 43014, 1>>,
    <<43019, 43019, 1>>, <<43045, 43046, 1>>, <<43052, 43052, 1>>,
    <<43204, 43205, 1>>, <<43232, 43249, 1>>, <<43263, 43263, 1>>,
    <<43302, 43309, 1>>, <<43335, 43345, 1>>, <<43392, 43394, 1>>,
    <<43443, 43443, 1>>, <<43446, 43449, 1>>, <<43452, 43453, 1>>,
    <<43471, 43471, 1>>, <<43493, 43494, 1>>, <<43561, 43566, 1>>,
    <<43569, 43570, 1>>, <<43573, 43574, 1>>, <<43587, 43587, 1>>,
    <<43596, 43596, 1>>, <<43632, 43632, 1>>, <<43644, 43644, 1>>,
    <<43696, 43698, 2>>, <<43699, 43700, 1>>, <<43703, 43704, 1>>,
    <<43710, 43711, 1>>, <<43713, 43713, 1>>, <<43741, 43741, 1>>,
    <<43756, 43757, 1>>, <<43763, 43764, 1>>, <<43766, 43766, 1>>,
    <<43867, 43871, 1>>, <<43881, 43883, 1>>, <<44005, 44005, 1>>,
    <<44008, 44008, 1>>, <<44013, 44013, 1>>, <<64286, 64286, 1>>,
    <<64434, 64450, 1>>, <<65024, 65039, 1>>, <<65043, 65043, 1>>,
    <<65056, 65071, 1>>, <<65106, 65106, 1>>, <<65109, 65109, 1>>,
    <<65279, 65279, 1>>, <<65287, 65287, 1>>, <<65294, 65294, 1>>,
    <<65306, 65306, 1>>, <<65342, 65344, 2>>, <<65392, 65392, 1>>,
    <<65438, 65439, 1>>, <<65507, 65507, 1>>, <<65529, 65531, 1>>,
    <<66045, 66045, 1>>, <<66272, 66272, 1>>, <<66422, 66426, 1>>,
    <<67456, 67461, 1>>, <<67463, 67504, 1>>, <<67506, 67514, 1>>,
    <<68097, 68099, 1>>, <<68101, 68102, 1>>, <<68108, 68111, 1>>,
    <<68152, 68154, 1>>, <<68159, 68159, 1>>, <<68325, 68326, 1>>,
    <<68900, 68903, 1>>, <<69291, 69292, 1>>, <<69446, 69456, 1>>,
    <<69506, 69509, 1>>, <<69633, 69633, 1>>, <<69688, 69702, 1>>,
    <<69744, 69744, 1>>, <<69747, 69748, 1>>, <<69759, 69761, 1>>,
    <<69811, 69814, 1>>, <<69817, 69818, 1>>, <<69821, 69821, 1>>,
    <<69826, 69826, 1>>, <<69837, 69837, 1>>, <<69888, 69890, 1>>,
    <<69927, 69931, 1>>, <<69933, 69940, 1>>, <<70003, 70003, 1>>,
    <<70016, 70017, 1>>, <<70070, 70078, 1>>, <<70089, 70092, 1>>,
    <<70095, 70095, 1>>, <<70191, 70193, 1>>, <<70196, 70198, 2>>,
    <<70199, 70199, 1>>, <<70206, 70206, 1>>, <<70367, 70367, 1>>,
    <<70371, 70378, 1>>, <<70400, 70401, 1>>, <<70459, 70460, 1>>,
    <<70464, 70464, 1>>, <<70502, 70508, 1>>, <<70512, 70516, 1>>,
    <<70712, 70719, 1>>, <<70722, 70724, 1>>, <<70726, 70726, 1>>,
    <<70750, 70750, 1>>, <<70835, 70840, 1>>, <<70842, 70842, 1>>,
    <<70847, 70848, 1>>, <<70850, 70851, 1>>, <<71090, 71093, 1>>,
    <<71100, 71101, 1>>, <<71103, 71104, 1>>, <<71132, 71133, 1>>,
    <<71219, 71226, 1>>, <<71229, 71231, 2>>, <<71232, 71232, 1>>,
    <<71339, 71341, 2>>, <<71344, 71349, 1>>, <<71351, 71351, 1>>,
    <<71453, 71455, 1>>, <<71458, 71461, 1>>, <<71463, 71467, 1>>,
    <<71727, 71735, 1>>, <<71737, 71738, 1>>, <<71995, 71996, 1>>,
    <<71998, 71998, 1>>, <<72003, 72003, 1>>, <<72148, 72151, 1>>,
    <<72154, 72155, 1>>, <<72160, 72160, 1>>, <<72193, 72202, 1>>,
    <<72243, 72248, 1>>, <<72251, 72254, 1>>, <<72263, 72263, 1>>,
    <<72273, 72278, 1>>, <<72281, 72283, 1>>, <<72330, 72342, 1>>,
    <<72344, 72345, 1>>, <<72752, 72758, 1>>, <<72760, 72765, 1>>,
    <<72767, 72767, 1>>, <<72850, 72871, 1>>, <<72874, 72880, 1>>,
    <<72882, 72883, 1>>, <<72885, 72886, 1>>, <<73009, 73014, 1>>,
    <<73018, 73020, 2>>, <<73021, 73023, 2>>, <<73024, 73029, 1>>,
    <<73031, 73031, 1>>, <<73104, 73105, 1>>, <<73109, 73111, 2>>,
    <<73459, 73460, 1>>, <<78896, 78904, 1>>, <<92912, 92916, 1>>,
    <<92976, 92982, 1>>, <<92992, 92995, 1>>, <<94031, 94031, 1>>,
    <<94095, 94111, 1>>, <<94176, 94177, 1>>, <<94179, 94180, 1>>,
    <<110576, 110579, 1>>, <<110581, 110587, 1>>, <<110589, 110590, 1>>,
    <<113821, 113822, 1>>, <<113824, 113827, 1>>, <<118528, 118573, 1>>,
    <<118576, 118598, 1>>, <<119143, 119145, 1>>, <<119155, 119170, 1>>,
    <<119173, 119179, 1>>, <<119210, 119213, 1>>, <<119362, 119364, 1>>,
    <<121344, 121398, 1>>, <<121403, 121452, 1>>, <<121461, 121461, 1>>,
    <<121476, 121476, 1>>, <<121499, 121503, 1>>, <<121505, 121519, 1>>,
    <<122880, 122886, 1>>, <<122888, 122904, 1>>, <<122907, 122913, 1>>,
    <<122915, 122916, 1>>, <<122918, 122922, 1>>, <<123184, 123197, 1>>,
    <<123566, 123566, 1>>, <<123628, 123631, 1>>, <<125136, 125142, 1>>,
    <<125252, 125259, 1>>, <<127995, 127999, 1>>, <<917505, 917505, 1>>,
    <<917536, 917631, 1>>, <<917760, 917999, 1>>},
   cased |->
   {<<65, 90, 1>>, <<97, 122, 1>>, <<170, 170, 1>>, <<181, 181, 1>>,
    <<186, 186, 1>>, <<192, 214, 1>>, <<216, 246, 1>>, <<248, 442, 1>>,
    <<444, 447, 1>>, <<452, 659, 1>>, <<661, 687, 1>>, <<880, 883, 1>>,
    <<886, 887, 1>>, <<891, 893, 1>>, <<895, 895, 1>>, <<902, 904, 2>>,
    <<905, 906, 1>>, <<908, 910, 2>>, <<911, 929, 1>>, <<931, 1013, 1>>,
    <<1015, 1153, 1>>, <<1162, 1327, 1>>, <<1329, 1366, 1>>,
    <<1376, 1416, 1>>, <<4256, 4293, 1>>, <<4295, 4295, 1>>,
    <<4301, 4301, 1>>, <<4304, 4346, 1>>, <<4349, 4351, 1>>,
    <<5024, 5109, 1>>, <<5112, 5117, 1>>, <<7296, 7304, 1>>,
    <<7312, 7354, 1>>, <<7357, 7359, 1>>, <<7424, 7467, 1>>,
    <<7531, 7543, 1>>, <<7545, 7578, 1>>, <<7680, 7957, 1>>,
    <<7960, 7965, 1>>, <<7968, 8005, 1>>, <<8008, 8013, 1>>,
    <<8016, 8023, 1>>, <<8025, 8031, 2>>, <<8032, 8061, 1>>,
    <<8064, 8116, 1>>, <<8118, 8124, 1>>, <<8126, 8126, 1>>,
    <<8130, 8132, 1>>, <<8134, 8140, 1>>, <<8144, 8147, 1>>,
    <<8150, 8155, 1>>, <<8160, 8172, 1>>, <<8178, 8180, 1>>,
    <<8182, 8188, 1>>, <<8450, 8450, 1>>, <<8455, 8455, 1>>,
    <<8458, 8467, 1>>, <<8469, 8469, 1>>, <<8473, 8477, 1>>,
    <<8484, 8490, 2>>, <<8491, 8493, 1>>, <<8495, 8500, 1>>,
    <<8505, 8505, 1>>, <<8508, 8511, 1>>, <<8517, 8521, 1>>,
    <<8526, 8526, 1>>, <<8544, 8575, 1>>, <<8579, 8580, 1>>,
    <<9398, 9449, 1>>, <<11264, 11387, 1>>, <<11390, 11492, 1>>,
    <<11499, 11502, 1>>, <<11506, 11507, 1>>, <<11520, 11557, 1>>,
    <<11559, 11559, 1>>, <<11565, 11565, 1>>, <<42560, 42605, 1>>,
    <<42624, 42651, 1>>, <<42786, 42863, 1>>, <<42865, 42887, 1>>,
    <<42891, 42894, 1>>, <<42896, 42954, 1>>, <<42960, 42961, 1>>,
    <<42963, 42965, 2>>, <<42966, 42969, 1>>, <<42997, 42998, 1>>,
    <<43002, 43002, 1>>, <<43824, 43866, 1>>, <<43872, 43880, 1>>,
    <<43888, 43967, 1>>, <<64256, 64262, 1>>, <<64275, 64279, 1>>,
    <<65313, 65338, 1>>, <<65345, 65370, 1>>, <<66560, 66639, 1>>,
    <<66736, 66771, 1>>, <<66776, 66811, 1>>, <<66928, 66938, 1>>,
    <<66940, 66954, 1>>, <<66956, 66962, 1>>, <<66964, 66965, 1>>,
    <<66967, 66977, 1>>, <<66979, 66993, 1>>, <<66995, 67001, 1>>,
    <<67003, 67004, 1>>, <<68736, 68786, 1>>, <<68800, 68850, 1>>,
    <<71840, 71903, 1>>, <<93760, 93823, 1>>, <<119808, 119892, 1>>,
    <<119894, 119964, 1>>, <<119966, 119967, 1>>, <<119970, 119970, 1>>,
    <<119973, 119974, 1>>, <<119977, 119980, 1>>, <<119982, 119993, 1>>,
    <<119995, 119997, 2>>, <<119998, 120003, 1>>, <<120005, 120069, 1>>,
    <<120071, 120074, 1>>, <<120077, 120084, 1>>, <<120086, 120092, 1>>,
    <<120094, 120121, 1>>, <<120123, 120126, 1>>, <<120128, 120132, 1>>,
    <<120134, 120134, 1>>, <<120138, 120144, 1>>, <<120146, 120485, 1>>,
    <<120488, 120512, 1>>, <<120514, 120538, 1>>, <<120540, 120570, 1>>,
    <<120572, 120596, 1>>, <<120598, 120628, 1>>, <<120630, 120654, 1>>,
    <<120656, 120686, 1>>, <<120688, 120712, 1>>, <<120714, 120744, 1>>,
    <<120746, 120770, 1>>, <<120772, 120779, 1>>, <<122624, 122633, 1>>,
    <<122635, 122654, 1>>, <<125184, 125251, 1>>, <<127280, 127305, 1>>,
    <<127312, 127337, 1>>, <<127344, 127369, 1>>}]

CaseIgnorable(c) ==
    With(Ord(c), LAMBDA n : \E r \in CaseRanges.ignorable : InRange(n, r))

Cased(c) == With(Ord(c), LAMBDA n : \E r \in CaseRanges.cased : InRange(n, r))

\* str.lower on one character taken alone: a text of one character, of two
\* for U+0130
LowerChar(c) ==
    With(Ord(c), LAMBDA n :
        IF n < 128
        THEN IF 65 <= n /\ n <= 90 THEN <<Chr(n + 32)>> ELSE <<c>>
        ELSE IF n = 304 THEN <<"i", Chr(775)>>
        ELSE IF n = 931 THEN <<Chr(963)>>
        ELSE IF \E r \in LowerRanges : InRange(n, r)
             THEN <<Chr(n + (CHOOSE r \in LowerRanges : InRange(n, r))[4])>>
             ELSE <<c>>)

\* the capital sigma at index i of s is final: a cased character stands
\* before it and none after it, case-ignorable characters skipped
FinalSigma(s, i) ==
    LET before == {j \in 1..(i - 1) : ~CaseIgnorable(s[j])}
        after  == {j \in (i + 1)..Len(s) : ~CaseIgnorable(s[j])}
    IN /\ before # {}
       /\ Cased(s[CHOOSE j \in before : \A k \in before : k <= j])
       /\ \/ after = {}
          \/ ~Cased(s[CHOOSE j \in after : \A k \in after : j <= k])

RECURSIVE LowerFrom(_, _)
\* the lower-cased text of s[i..]
LowerFrom(s, i) ==
    IF i > Len(s) THEN <<>>
    ELSE (IF s[i] = Chr(931) /\ FinalSigma(s, i)
          THEN <<Chr(962)>> ELSE LowerChar(s[i])) \o LowerFrom(s, i + 1)

\* str.lower
Lower(s) == With(s, LAMBDA v : LowerFrom(v, 1))

\* s[i:] with a 0-based start index, as Python slices
From(s, i) == SubSeq(s, i + 1, Len(s))

\* s[:i]
UpTo(s, i) == SubSeq(s, 1, i)

\* rows[:n] as Python slices
Slice(rows, n) ==
    IF n >= 0
    THEN SubSeq(rows, 1, IF n < Len(rows) THEN n ELSE Len(rows))
    ELSE SubSeq(rows, 1, IF Len(rows) + n > 0 THEN Len(rows) + n ELSE 0)

\* str.startswith
StartsWith(s, p) ==
    With(s, LAMBDA v : Len(p) <= Len(v) /\ SubSeq(v, 1, Len(p)) = p)

\* str.endswith
EndsWith(s, p) ==
    With(s, LAMBDA v :
        Len(p) <= Len(v) /\ SubSeq(v, Len(v) - Len(p) + 1, Len(v)) = p)

\* c in s, for a character c
Has(s, c) == With(s, LAMBDA v : \E i \in 1..Len(v) : v[i] = c)

\* str.find(c) for a one-character c: 0-based index of the first
\* occurrence, -1 when there is none
Find(s, c) ==
    With(s, LAMBDA v :
        IF \E i \in 1..Len(v) : v[i] = c
        THEN (CHOOSE i \in 1..Len(v) :
                  v[i] = c /\ \A j \in 1..(i-1) : v[j] # c) - 1
        ELSE -1)

\* str.find(c, start): 0-based index of the first occurrence at or behind
\* the 0-based index start, -1 when there is none
FindFrom(s, c, start) ==
    With(s, LAMBDA v :
      With(start, LAMBDA k :
        IF \E i \in (k + 1)..Len(v) : v[i] = c
        THEN (CHOOSE i \in (k + 1)..Len(v) :
                  v[i] = c /\ \A j \in (k + 1)..(i-1) : v[j] # c) - 1
        ELSE -1))

\* 0-based index of the first character of s that is in the set cs,
\* Len(s) when there is none
FindAny(s, cs) ==
    With(s, LAMBDA v :
      With(cs, LAMBDA set :
        IF \E i \in 1..Len(v) : v[i] \in set
        THEN (CHOOSE i \in 1..Len(v) :
                  v[i] \in set /\ \A j \in 1..(i-1) : v[j] \notin set) - 1
        ELSE Len(v)))

\* 0-based index of the last occurrence of c, -1 when there is none
RFind(s, c) ==
    With(s, LAMBDA v :
        IF \E i \in 1..Len(v) : v[i] = c
        THEN (CHOOSE i \in 1..Len(v) :
                  v[i] = c /\ \A j \in (i+1)..Len(v) : v[j] # c) - 1
        ELSE -1)

\* str.replace(old, ""): every non-overlapping occurrence of old, scanning
\* from the left, is removed
RECURSIVE Remove(_, _)
Remove(s, old) ==
    With(s, LAMBDA v :
        IF v = <<>> \/ old = <<>> THEN v
        ELSE IF StartsWith(v, old) THEN Remove(From(v, Len(old)), old)
        ELSE <<Head(v)>> \o Remove(Tail(v), old))

\* s without its characters that are in the set cs
RemoveChars(s, cs) ==
    With(cs, LAMBDA set : SelectSeq(s, LAMBDA c : c \notin set))

\* str.lstrip(cs)
LStripChars(s, cs) ==
    With(s, LAMBDA v : From(v, FindAny(v, {v[i] : i \in 1..Len(v)} \ cs)))

\* str.split(c): the texts between the occurrences of the character c
RECURSIVE Split(_, _)
Split(s, c) ==
    With(s, LAMBDA v :
      With(Find(v, c), LAMBDA i :
        IF i < 0 THEN <<v>>
        ELSE <<UpTo(v, i)>> \o Split(From(v, i + 1), c)))

\* c.join(parts)
RECURSIVE Join(_, _)
Join(parts, c) ==
    With(parts, LAMBDA ps :
        IF ps = <<>> THEN <<>>
        ELSE IF Len(ps) = 1 THEN ps[1]
        ELSE ps[1] \o <<c>> \o Join(Tail(ps), c))

(***************************************************************************)
(* ipaddress: the texts that are IPv4 and IPv6 addresses.                  *)
(***************************************************************************)
HexDigits ==
    Digits \cup {"a","b","c","d","e","f","A","B","C","D","E","F"}

\* the value of a text of decimal digits
RECURSIVE DecimalValue(_)
DecimalValue(s) ==
    With(s, LAMBDA v :
        IF v = <<>> THEN 0
        ELSE 10 * DecimalValue(UpTo(v, Len(v) - 1)) + Latin1Ord[v[Len(v)]] - 48)

\* IPv4Address._parse_octet accepts the text
OctetOK(s) ==
    /\ s # <<>>
    /\ \A i \in 1..Len(s) : s[i] \in Digits
    /\ Len(s) <= 3
    /\ (s = <<"0">> \/ s[1] # "0")
    /\ DecimalValue(s) <= 255

\* IPv4Address(s) is constructed
IPv4OK(s) ==
    /\ s # <<>>
    /\ With(Split(s, "."), LAMBDA octets :
           Len(octets) = 4 /\ \A i \in 1..4 : OctetOK(octets[i]))

\* IPv6Address._parse_hextet accepts the text
HextetOK(s) ==
    /\ \A i \in 1..Len(s) : s[i] \in HexDigits
    /\ Len(s) <= 4
    /\ s # <<>>

\* IPv6Address._ip_int_from_string accepts the list of parts, in which an
\* IPv4 suffix is already replaced by two hextets
IPv6PartsOK(parts) ==
    With(parts, LAMBDA ps :
      With(Len(ps), LAMBDA n :
        With({i \in 2..(n - 1) : ps[i] = <<>>}, LAMBDA skip :
          /\ n <= 9
          /\ Cardinality(skip) <= 1
          /\ IF skip # {}
             THEN With(CHOOSE i \in skip : TRUE, LAMBDA k :
                    With(IF ps[1] = <<>> THEN k - 2 ELSE k - 1, LAMBDA hi :
                      With(IF ps[n] = <<>> THEN n - k - 1 ELSE n - k, LAMBDA lo :
                        /\ ps[1] = <<>> => hi = 0
                        /\ ps[n] = <<>> => lo = 0
                        /\ 8 - (hi + lo) >= 1
                        /\ \A i \in 1..hi : HextetOK(ps[i])
                        /\ \A i \in (n - lo + 1)..n : HextetOK(ps[i]))))
             ELSE /\ n = 8
                  /\ \A i \in 1..n : HextetOK(ps[i]))))

\* IPv6Address(s) is constructed
IPv6OK(s) ==
    With(Find(s, "%"), LAMBDA pct :
      With(IF pct >= 0 THEN UpTo(s, pct) ELSE s, LAMBDA addr :
        With(IF pct >= 0 THEN From(s, pct + 1) ELSE <<>>, LAMBDA scope :
          With(Split(addr, ":"), LAMBDA parts :
            /\ ~Has(s, "/")
            /\ pct >= 0 => (scope # <<>> /\ ~Has(scope, "%"))
            /\ addr # <<>>
            /\ Len(parts) >= 3
            /\ IF Has(parts[Len(parts)], ".")
               THEN /\ IPv4OK(parts[Len(parts)])
                    /\ IPv6PartsOK(UpTo(parts, Len(parts) - 1)
                                       \o << <<"0">>, <<"0">> >>)
               ELSE IPv6PartsOK(parts)))))

(***************************************************************************)
(* urllib.parse: urlsplit, urlparse, urlunparse, geturl, urljoin, quote    *)
(* and unquote, as CPython 3.11 computes them.                             *)
(***************************************************************************)
\* string.ascii_letters and the characters of a scheme
Letters == {Chr(n) : n \in (65..90) \cup (97..122)}
SchemeChars == Letters \cup Digits \cup {"+", "-", "."}

S_http == <<"h","t","t","p">>
S_https == <<"h","t","t","p","s">>

\* the schemes of urllib.parse.uses_relative, uses_netloc and uses_params
uses_relative ==
    { <<>>, <<"f","t","p">>, S_http, <<"g","o","p","h","e","r">>,
      <<"n","n","t","p">>, <<"i","m","a","p">>, <<"w","a","i","s">>,
      <<"f","i","l","e">>, S_https, <<"s","h","t","t","p">>,
      <<"m","m","s">>, <<"p","r","o","s","p","e","r","o">>,
      <<"r","t","s","p">>, <<"r","t","s","p","s">>, <<"r","t","s","p","u">>,
      <<"s","f","t","p">>, <<"s","v","n">>, <<"s","v","n","+","s","s","h">>,
      <<"w","s">>, <<"w","s","s">> }
uses_netloc ==
    { <<>>, <<"f","t","p">>, S_http, <<"g","o","p","h","e","r">>,
      <<"n","n","t","p">>, <<"t","e","l","n","e","t">>, <<"i","m","a","p">>,
      <<"w","a","i","s">>, <<"f","i","l","e">>, <<"m","m","s">>, S_https,
      <<"s","h","t","t","p">>, <<"s","n","e","w","s">>,
      <<"p","r","o","s","p","e","r","o">>, <<"r","t","s","p">>,
      <<"r","t","s","p","s">>, <<"r","t","s","p","u">>,
      <<"r","s","y","n","c">>, <<"s","v","n">>,
      <<"s","v","n","+","s","s","h">>, <<"s","f","t","p">>, <<"n","f","s">>,
      <<"g","i","t">>, <<"g","i","t","+","s","s","h">>, <<"w","s">>,
      <<"w","s","s">> }
uses_params ==
    { <<>>, <<"f","t","p">>, <<"h","d","l">>,
      <<"p","r","o","s","p","e","r","o">>, S_http, <<"i","m","a","p">>,
      S_https, <<"s","h","t","t","p">>, <<"r","t","s","p">>,
      <<"r","t","s","p","s">>, <<"r","t","s","p","u">>, <<"s","i","p">>,
      <<"s","i","p","s">>, <<"m","m","s">>, <<"s","f","t","p">>,
      <<"t","e","l">> }

\* the value that stands for a call that raised ValueError where the call
\* returns a text
ValueError == <<"ValueError">>

\* the scheme urlsplit finds at the head of s (lower-cased), or ""
SchemeOf(s) ==
    With(Find(s, ":"), LAMBDA i :
        IF i > 0 /\ s[1] \in Letters /\ \A j \in 1..i : s[j] \in SchemeChars
        THEN Lower(UpTo(s, i))
        ELSE <<>>)

\* urlsplit behind the scheme: r is the text after "scheme:", or the whole
\* text when there is no scheme; the netloc runs from "//" to the first of
\* "/", "?", "#"
SplitNetloc(r) ==
    IF StartsWith(r, <<"/","/">>)
    THEN With(FindAny(From(r, 2), {"/", "?", "#"}),
              LAMBDA n : [netloc |-> SubSeq(r, 3, n + 2), rest |-> From(r, n + 2)])
    ELSE [netloc |-> <<>>, rest |-> r]

\* _check_bracketed_host(hostname) returns: the host between "[" and "]"
\* is an IPvFuture literal (v, hexadecimal digits, a dot, one character or
\* more) or an IPv6 address
BracketedHostOK(hostname) ==
    With(hostname, LAMBDA h :
        IF StartsWith(h, <<"v">>)
        THEN With(FindAny(Tail(h), {h[i] : i \in 1..Len(h)} \ HexDigits),
                  LAMBDA k : /\ k >= 1
                             /\ k + 2 < Len(h)
                             /\ h[k + 2] = ".")
        ELSE IPv6OK(h))

\* urlsplit raises "Invalid IPv6 URL" or the error of
\* _check_bracketed_host on this netloc
BracketError(netloc) ==
    With(Find(netloc, "["), LAMBDA open :
        IF open < 0 THEN Has(netloc, "]")
        ELSE IF ~Has(netloc, "]") THEN TRUE
        ELSE With(From(netloc, open + 1), LAMBDA after :
               With(Find(after, "]"), LAMBDA close :
                 ~BracketedHostOK(IF close >= 0 THEN UpTo(after, close)
                                  ELSE after))))

\* the characters above U+007F whose NFKC form holds one of "/?#@:"
NFKCUnsafe ==
  {8263, 8264, 8265, 8448, 8449, 8453, 8454, 10868, 65043, 65046, 65109,
    65110, 65119, 65131, 65283, 65295, 65306, 65311, 65312}

\* _checknetloc(netloc) raises
NetlocError(netloc) == \E i \in 1..Len(netloc) : Ord(netloc[i]) \in NFKCUnsafe

\* urlsplit behind the netloc: fragment behind the first "#", query behind
\* the first "?" before it
SplitPath(r) ==
    With(Find(r, "#"), LAMBDA h :
      With(IF h >= 0 THEN UpTo(r, h) ELSE r, LAMBDA r3 :
        With(Find(r3, "?"), LAMBDA q :
          [path     |-> IF q >= 0 THEN UpTo(r3, q) ELSE r3,
           query    |-> IF q >= 0 THEN From(r3, q + 1) ELSE <<>>,
           fragment |-> IF h >= 0 THEN From(r, h + 1) ELSE <<>>])))

\* the result of a parse that raised ValueError
ParseRaised ==
    [scheme |-> <<>>, netloc |-> <<>>, path |-> <<>>, params |-> <<>>,
     query |-> <<>>, fragment |-> <<>>, raises |-> TRUE]

\* _splitparams(url): the path and the parameters behind the first ";" of
\* its last segment
SplitParams(url) ==
    With(IF Has(url, "/") THEN FindFrom(url, ";", RFind(url, "/"))
         ELSE Find(url, ";"),
         LAMBDA i : IF i < 0 THEN [path |-> url, params |-> <<>>]
                    ELSE [path |-> UpTo(url, i), params |-> From(url, i + 1)])

\* urlparse(url, scheme): the six components, scheme being the default
\* for a URL that names none; raises is TRUE when urlsplit raises
\* ValueError
urlparseWith(url, scheme) ==
    With(With(url, LAMBDA u : RemoveChars(LStripChars(u, {Chr(n) : n \in 0..32}),
                                          {"\t", "\r", "\n"})), LAMBDA t :
      With(SchemeOf(t), LAMBDA sch :
        With(SplitNetloc(IF sch # <<>> THEN From(t, Len(sch) + 1) ELSE t),
             LAMBDA n :
          IF BracketError(n.netloc) \/ NetlocError(n.netloc)
          THEN ParseRaised
          ELSE With(SplitPath(n.rest), LAMBDA r :
                 With(IF sch # <<>> THEN sch ELSE scheme, LAMBDA sc :
                   With(IF sc \in uses_params /\ Has(r.path, ";")
                        THEN SplitParams(r.path)
                        ELSE [path |-> r.path, params |-> <<>>], LAMBDA pp :
                     [scheme   |-> sc,
                      netloc   |-> n.netloc,
                      path     |-> pp.path,
                      params   |-> pp.params,
                      query    |-> r.query,
                      fragment |-> r.fragment,
                      raises   |-> FALSE]))))))

\* urlparse(url)
urlparse(s) == urlparseWith(s, <<>>)

\* urlunparse of components held as values
Unparse(p) ==
    LET url0    == IF p.params # <<>> THEN p.path \o <<";">> \o p.params
                   ELSE p.path
        withNet == p.netloc # <<>>
                   \/ (p.scheme # <<>> /\ p.scheme \in uses_netloc
                       /\ ~StartsWith(url0, <<"/","/">>))
        pth == IF withNet /\ url0 # <<>> /\ url0[1] # "/"
               THEN <<"/">> \o url0 ELSE url0
        u1  == IF withNet THEN <<"/","/">> \o p.netloc \o pth ELSE url0
        u2  == IF p.scheme # <<>> THEN p.scheme \o <<":">> \o u1 ELSE u1
        u3  == IF p.query # <<>> THEN u2 \o <<"?">> \o p.query ELSE u2
    IN IF p.fragment # <<>> THEN u3 \o <<"#">> \o p.fragment ELSE u3

\* ParseResult.geturl(): urlunparse of the components
geturl(p) == With(p, LAMBDA v : Unparse(v))

\* the segments of urljoin without the empty ones between the first and
\* the last: segments[1:-1] = filter(None, segments[1:-1])
FilterMiddle(segments) ==
    With(segments, LAMBDA segs :
        IF Len(segs) <= 2 THEN segs
        ELSE <<segs[1]>>
             \o SelectSeq(SubSeq(segs, 2, Len(segs) - 1), LAMBDA seg : seg # <<>>)
             \o <<segs[Len(segs)]>>)

\* the loop of urljoin over the segments: ".." drops the last resolved
\* segment, if any; "." is skipped
RECURSIVE Resolve(_, _)
Resolve(segments, resolved_path) ==
    With(segments, LAMBDA segs :
      With(resolved_path, LAMBDA done :
        IF segs = <<>> THEN done
        ELSE IF Head(segs) = <<".", ".">>
             THEN Resolve(Tail(segs),
                          UpTo(done, IF done = <<>> THEN 0 ELSE Len(done) - 1))
        ELSE IF Head(segs) = <<".">> THEN Resolve(Tail(segs), done)
        ELSE Resolve(Tail(segs), Append(done, Head(segs)))))

\* the path urljoin builds from the base path and the path of the
\* reference
JoinPath(bpath, path) ==
    With(Split(bpath, "/"), LAMBDA parts0 :
      With(IF parts0[Len(parts0)] # <<>>
           THEN UpTo(parts0, Len(parts0) - 1) ELSE parts0, LAMBDA base_parts :
        With(IF path # <<>> /\ path[1] = "/" THEN Split(path, "/")
             ELSE FilterMiddle(base_parts \o Split(path, "/")),
             LAMBDA segments :
          With(Resolve(segments, <<>>), LAMBDA resolved :
            With(Join(IF segments[Len(segments)] \in {<<".">>, <<".", ".">>}
                      THEN Append(resolved, <<>>) ELSE resolved, "/"),
                 LAMBDA joined :
              IF joined = <<>> THEN <<"/">> ELSE joined)))))

\* urljoin behind its two urlparse calls: b the parsed base, u the parsed
\* reference, url the reference as written
JoinParsed(b, u, url) ==
    IF u.scheme # b.scheme \/ u.scheme \notin uses_relative THEN url
    ELSE IF u.scheme \in uses_netloc /\ u.netloc # <<>> THEN geturl(u)
    ELSE With(IF u.scheme \in uses_netloc THEN b.netloc ELSE u.netloc,
              LAMBDA netloc :
           IF u.path = <<>> /\ u.params = <<>>
           THEN geturl([u EXCEPT !.netloc = netloc, !.path = b.path,
                           !.params = b.params,
                           !.query = IF u.query = <<>> THEN b.query
                                     ELSE u.query])
           ELSE geturl([u EXCEPT !.netloc = netloc,
                           !.path = JoinPath(b.path, u.path)]))

\* urljoin(base, url); ValueError when one of its urlparse calls raises
urljoin(base, url) ==
    With(url, LAMBDA ref :
      IF base = <<>> THEN ref
      ELSE IF ref = <<>> THEN base
      ELSE With(urlparse(base), LAMBDA b :
             IF b.raises THEN ValueError
             ELSE With(urlparseWith(ref, b.scheme), LAMBDA u :
                    IF u.raises THEN ValueError
                    ELSE JoinParsed(b, u, ref))))

\* the UTF-8 encoding of the code point n, a sequence of bytes
Utf8(n) ==
    IF n < 128 THEN <<n>>
    ELSE IF n < 2048 THEN <<192 + (n \div 64), 128 + (n % 64)>>
    ELSE IF n < 65536
         THEN <<224 + (n \div 4096), 128 + ((n \div 64) % 64), 128 + (n % 64)>>
    ELSE <<240 + (n \div 262144), 128 + ((n \div 4096) % 64),
           128 + ((n \div 64) % 64), 128 + (n % 64)>>

\* the value of a hexadecimal digit
HexValue(c) ==
    With(Latin1Ord[c], LAMBDA n :
        IF n <= 57 THEN n - 48 ELSE IF n <= 70 THEN n - 55 ELSE n - 87)

HexUpper == <<"0","1","2","3","4","5","6","7","8","9","A","B","C","D","E","F">>

RECURSIVE UnquoteToBytes(_, _)
\* unquote_to_bytes on s[i..]: "%" and two hexadecimal digits give the
\* byte they name, every other character its UTF-8 encoding
UnquoteToBytes(s, i) ==
    IF i > Len(s) THEN <<>>
    ELSE IF s[i] = "%" /\ i + 2 <= Len(s)
            /\ s[i + 1] \in HexDigits /\ s[i + 2] \in HexDigits
         THEN <<16 * HexValue(s[i + 1]) + HexValue(s[i + 2])>>
              \o UnquoteToBytes(s, i + 3)
    ELSE Utf8(Ord(s[i])) \o UnquoteToBytes(s, i + 1)

\* for a lead byte of a UTF-8 sequence: the number of bytes that follow it
\* and the range of the first of them; need is 0 for a byte that leads
\* nothing
Utf8Lead(b) ==
    IF 194 <= b /\ b <= 223 THEN [need |-> 1, lo |-> 128, hi |-> 191]
    ELSE IF b = 224 THEN [need |-> 2, lo |-> 160, hi |-> 191]
    ELSE IF b = 237 THEN [need |-> 2, lo |-> 128, hi |-> 159]
    ELSE IF 225 <= b /\ b <= 239 THEN [need |-> 2, lo |-> 128, hi |-> 191]
    ELSE IF b = 240 THEN [need |-> 3, lo |-> 144, hi |-> 191]
    ELSE IF 241 <= b /\ b <= 243 THEN [need |-> 3, lo |-> 128, hi |-> 191]
    ELSE IF b = 244 THEN [need |-> 3, lo |-> 128, hi |-> 143]
    ELSE [need |-> 0, lo |-> 0, hi |-> 0]

\* the number of bytes behind bs[i] that continue the sequence it leads
Utf8Run(bs, i, lead) ==
    LET ok(k) == /\ i + k <= Len(bs)
                 /\ IF k = 1 THEN lead.lo <= bs[i + k] /\ bs[i + k] <= lead.hi
                    ELSE 128 <= bs[i + k] /\ bs[i + k] <= 191
        good  == {k \in 0..lead.need : \A j \in 1..k : ok(j)}
    IN CHOOSE k \in good : \A j \in good : j <= k

\* the code point of the well-formed sequence of n + 1 bytes at bs[i]
Utf8CodePoint(bs, i, n) ==
    IF n = 1 THEN (bs[i] - 192) * 64 + (bs[i + 1] - 128)
    ELSE IF n = 2
         THEN (bs[i] - 224) * 4096 + (bs[i + 1] - 128) * 64 + (bs[i + 2] - 128)
    ELSE (bs[i] - 240) * 262144 + (bs[i + 1] - 128) * 4096
         + (bs[i + 2] - 128) * 64 + (bs[i + 3] - 128)

RECURSIVE Utf8Decode(_, _)
\* bytes.decode("utf-8", "replace") on bs[i..]: U+FFFD stands for every
\* byte that leads nothing and for every sequence that breaks off
Utf8Decode(bs, i) ==
    IF i > Len(bs) THEN <<>>
    ELSE IF bs[i] < 128 THEN <<Chr(bs[i])>> \o Utf8Decode(bs, i + 1)
    ELSE With(Utf8Lead(bs[i]), LAMBDA lead :
           IF lead.need = 0 THEN <<Chr(65533)>> \o Utf8Decode(bs, i + 1)
           ELSE With(Utf8Run(bs, i, lead), LAMBDA k :
                  IF k = lead.need
                  THEN <<Chr(Utf8CodePoint(bs, i, k))>>
                       \o Utf8Decode(bs, i + k + 1)
                  ELSE <<Chr(65533)>> \o Utf8Decode(bs, i + k + 1)))

\* urllib.parse.unquote(s)
unquote(s) ==
    With(s, LAMBDA v :
        IF ~Has(v, "%") THEN v
        ELSE With(UnquoteToBytes(v, 1), LAMBDA bs : Utf8Decode(bs, 1)))

\* "%XX" for the byte b
PercentByte(b) == <<"%", HexUpper[(b \div 16) + 1], HexUpper[(b % 16) + 1]>>

RECURSIVE QuoteBytes(_, _)
\* quote_from_bytes on bs[i..]; quote leaves letters, digits, "_.-~" and the
\* safe character "/" as they are
QuoteBytes(bs, i) ==
    IF i > Len(bs) THEN <<>>
    ELSE (IF /\ bs[i] < 128
             /\ Chr(bs[i]) \in Letters \cup Digits \cup {"_", ".", "-", "~", "/"}
          THEN <<Chr(bs[i])>>
          ELSE PercentByte(bs[i])) \o QuoteBytes(bs, i + 1)

RECURSIVE EncodeUtf8(_, _)
\* str.encode("utf-8") on s[i..]
EncodeUtf8(s, i) ==
    IF i > Len(s) THEN <<>>
    ELSE Utf8(Ord(s[i])) \o EncodeUtf8(s, i + 1)

\* urllib.parse.quote(s)
quote(s) == With(s, LAMBDA v : With(EncodeUtf8(v, 1), LAMBDA bs : QuoteBytes(bs, 1)))

(***************************************************************************)
(* URL normalisation and domain scoping (durex_scraper.py lines 19-44).    *)
(***************************************************************************)
SKIP_EXTENSIONS ==
    { <<".","p","d","f">>, <<".","j","p","g">>, <<".","j","p","e","g">>,
      <<".","p","n","g">>, <<".","g","i","f">>, <<".","w","e","b","p">>,
      <<".","s","v","g">>, <<".","z","i","p">>, <<".","r","a","r">>,
      <<".","7","z">>, <<".","m","p","4">>, <<".","w","e","b","m">>,
      <<".","m","p","3">>, <<".","a","v","i">>, <<".","d","o","c">>,
      <<".","d","o","c","x">>, <<".","x","l","s">>, <<".","x","l","s","x">>,
      <<".","p","p","t">>, <<".","p","p","t","x">> }

\* lines 33-39 of clean_url on the parsed URL
CleanParsed(parsed) ==
    IF parsed.scheme = <<>> \/ parsed.netloc = <<>> THEN <<>>
    ELSE IF parsed.scheme \notin {S_http, S_https} THEN <<>>
    ELSE IF With(Lower(parsed.path), LAMBDA low :
                    \E ext \in SKIP_EXTENSIONS : EndsWith(low, ext))
         THEN <<>>
    ELSE geturl([parsed EXCEPT !.fragment = <<>>])

\* clean_url(url): "" (the empty text) when the URL is rejected, else the
\* URL rebuilt without its fragment; ValueError when urlparse raises
clean_url(u) ==
    With(urlparse(u), LAMBDA parsed :
        IF parsed.raises THEN ValueError ELSE CleanParsed(parsed))

\* urlparse(url) raises ValueError
UrlRaises(u) == urlparse(u).raises

\* same_domain(url, base_domain), for a URL that urlparse accepts; the call
\* raises ValueError when UrlRaises(url)
same_domain(u, base_domain) ==
    With(Lower(urlparse(u).netloc), LAMBDA netloc :
        netloc = base_domain \/ EndsWith(netloc, <<".">> \o base_domain))

\* base_domain of crawl_site:
\* urlparse(base_url).netloc.replace("www.", "").lower(); ValueError when
\* urlparse raises
BaseDomain(base) ==
    With(urlparse(base), LAMBDA parsed :
        IF parsed.raises THEN ValueError
        ELSE Lower(Remove(parsed.netloc, <<"w","w","w",".">>)))

(***************************************************************************)
(* urllib.robotparser.RobotFileParser as build_robot_parser uses it        *)
(* (durex_scraper.py lines 47-56).                                         *)
(***************************************************************************)
P_priv == <<"/","p","r","i","v">>

\* what the request for robots.txt can do: deliver a body with rules for
\* user agent * (the values of its Disallow lines, in the order of the
\* file), answer with an HTTP error status, or raise a transport error
\* (URLError)
RobotsOutcomes ==
    { [kind |-> "body", status |-> 200, disallow |-> <<>>],
      [kind |-> "body", status |-> 200, disallow |-> <<P_priv>>],
      [kind |-> "http_error", status |-> 403, disallow |-> <<>>],
      [kind |-> "http_error", status |-> 404, disallow |-> <<>>],
      [kind |-> "url_error", status |-> 0, disallow |-> <<>>] }

\* RobotFileParser() after __init__
NewRobotFileParser ==
    [disallow_all |-> FALSE, allow_all |-> FALSE, last_checked |-> FALSE,
     disallow |-> <<>>]

\* RobotFileParser.read() on a given outcome of the request; a transport
\* error is not handled by read() and leaves the parser untouched
RobotRead(rp0, outcome) ==
    IF outcome.kind = "http_error"
    THEN IF outcome.status \in {401, 403}
         THEN [rp0 EXCEPT !.disallow_all = TRUE]
         ELSE IF outcome.status >= 400 /\ outcome.status < 500
              THEN [rp0 EXCEPT !.allow_all = TRUE]
              ELSE rp0
    ELSE IF outcome.kind = "body"
         THEN [rp0 EXCEPT !.last_checked = TRUE, !.disallow = outcome.disallow]
         ELSE rp0

\* build_robot_parser(base_url): the parser is returned whether read()
\* returned or raised
build_robot_parser(outcome) == RobotRead(NewRobotFileParser, outcome)

\* RuleLine.path for the value of a Disallow line: parse() unquotes the
\* value, RuleLine.__init__ parses, unparses and quotes it
RulePath(value) == quote(geturl(urlparse(unquote(value))))

\* RuleLine.applies_to(filename)
RuleApplies(value, filename) ==
    With(RulePath(value), LAMBDA path :
        path = <<"*">> \/ StartsWith(filename, path))

\* Entry.allowance(filename) for the Disallow lines of the entry: the first
\* line that applies decides, and a Disallow line without a value allows
RECURSIVE Allowance(_, _)
Allowance(rulelines, filename) ==
    IF rulelines = <<>> THEN TRUE
    ELSE IF RuleApplies(Head(rulelines), filename)
         THEN Head(rulelines) = <<>>
    ELSE Allowance(Tail(rulelines), filename)

\* the text can_fetch matches against the rules: the URL unquoted and
\* parsed, its part behind the netloc unparsed and quoted, "/" when that is
\* empty
RobotsTarget(parsed) ==
    With(quote(geturl([parsed EXCEPT !.scheme = <<>>, !.netloc = <<>>])),
         LAMBDA target : IF target = <<>> THEN <<"/">> ELSE target)

\* RobotFileParser.can_fetch("*", url) reaches urlparse(unquote(url)) and
\* that call raises ValueError
CanFetchRaises(r, u) ==
    /\ ~r.disallow_all
    /\ ~r.allow_all
    /\ r.last_checked
    /\ UrlRaises(unquote(u))

\* RobotFileParser.can_fetch("*", url), for a call that returns; the call
\* raises ValueError when CanFetchRaises(r, url)
can_fetch(r, u) ==
    IF r.disallow_all THEN FALSE
    ELSE IF r.allow_all THEN TRUE
    ELSE IF ~r.last_checked THEN FALSE
    ELSE With(RobotsTarget(urlparse(unquote(u))), LAMBDA target :
             Allowance(r.disallow, target))

\* the robots gate of crawl_site, line 121: rp and not rp.can_fetch("*", url)
\* (a RobotFileParser object is always truthy)
RobotsDisallows(r, u) == ~can_fetch(r, u)

(***************************************************************************)
(* extract_content (lines 59-99) on the signals of a parsed document.      *)
(***************************************************************************)
\* the score with the description counted once instead of twice
score_MetaOnce(content_length, h_count, meta_len) ==
    content_length + (h_count * 80) + meta_len

\* line 88: score = content_length + (h_count * 80) + (len(meta_desc) * 2)
score(content_length, h_count, meta_len) ==
    content_length + (h_count * 80) + (meta_len * 2)

\* the length at which line 90 cuts content_text
SnippetLen == 240

\* the marker of line 90
Ellipsis == <<".", ".", ".">>

\* the snippet with the marker added from SnippetLen characters on
snippet_MarkedAtLimit(content_text) ==
    With(content_text, LAMBDA t :
        Slice(t, SnippetLen) \o (IF Len(t) >= SnippetLen THEN Ellipsis ELSE <<>>))

\* line 90: snippet = content_text[:240] + ("..." if len(content_text) > 240 else "")
snippet(content_text) ==
    With(content_text, LAMBDA t :
        Slice(t, SnippetLen) \o (IF Len(t) > SnippetLen THEN Ellipsis ELSE <<>>))

\* the elements lines 61-62 remove from the document with all they hold
Decomposed ==
    {"script", "style", "nav", "footer", "header", "aside", "noscript"}

\* lines 61-62: the document extract_content leaves behind: the anchors
\* and the headings inside a removed element are gone
Decompose(doc) ==
    [doc EXCEPT !.anchors = SelectSeq(doc.anchors,
                                LAMBDA a : a.within \notin Decomposed),
                !.headings = SelectSeq(doc.headings,
                                LAMBDA within : within \notin Decomposed)]

\* soup.find_all("a", href=True): the href values in document order
Hrefs(doc) == [i \in 1..Len(doc.anchors) |-> doc.anchors[i].href]

\* extract_content(soup): content_length and score of the document, read
\* behind the removal of lines 61-62
extract_content(doc) ==
    With(Decompose(doc), LAMBDA soup_ :
        [content_length |-> soup_.content_length,
         score |-> score(soup_.content_length, Len(soup_.headings), soup_.meta_len)])

(***************************************************************************)
(* save_csv (lines 160-177).                                               *)
(***************************************************************************)
RECURSIVE InsertDesc(_, _)

\* insertion in front of the rows of equal score
InsertDesc_BeforeEqual(sorted, x) ==
    With(sorted, LAMBDA v :
        IF v = <<>> THEN <<x>>
        ELSE IF Head(v).score > x.score
             THEN <<Head(v)>> \o InsertDesc(Tail(v), x)
             ELSE <<x>> \o v)

\* position of a new row in a list already sorted by score descending:
\* behind every row whose score is at least as high (stable)
InsertDesc(sorted, x) ==
    With(sorted, LAMBDA v :
        IF v = <<>> THEN <<x>>
        ELSE IF Head(v).score >= x.score
             THEN <<Head(v)>> \o InsertDesc(Tail(v), x)
             ELSE <<x>> \o v)

\* sorted(rows, key=lambda x: x["score"], reverse=True)
RECURSIVE SortedDesc(_)
SortedDesc(rows) ==
    With(rows, LAMBDA v :
        IF v = <<>> THEN <<>>
        ELSE InsertDesc(SortedDesc(SubSeq(v, 1, Len(v) - 1)), v[Len(v)]))

\* the rows save_csv writes under the header
save_csv(rows, top) ==
    With(SortedDesc(rows), LAMBDA rows_sorted :
        IF top # 0 THEN Slice(rows_sorted, top) ELSE rows_sorted)

(***************************************************************************)
(* The inputs explored: base URLs, link texts, documents and responses.    *)
(***************************************************************************)
\* values url and a["href"] take in the runs explored (lines 116 and 142):
\* absolute URLs of the site and of other hosts, a host that holds "www."
\* without starting with it, a text without a scheme
Url ==
    LET root == <<"h","t","t","p",":","/","/","s","i","t","e",".","t","e","s","t","/">>
    IN  [root |-> root,
         about |-> root \o <<"a","b","o","u","t">>,
         logo |-> root \o <<"l","o","g","o",".","p","n","g">>,
         privEsc |-> root \o <<"%","7","0","r","i","v">>,
         wwwTop |-> <<"h","t","t","p",":","/","/","w","w","w",".","s","i","t","e",
                      ".","t","e","s","t","/","#","t","o","p">>,
         noScheme |-> <<"s","i","t","e",".","t","e","s","t">>,
         other |-> <<"h","t","t","p",":","/","/","o","t","h","e","r",".","t","e","s","t","/">>,
         wwwInside |-> <<"h","t","t","p",":","/","/","m","y","w","w","w",".","t","e","s","t","/">>,
         mytest |-> <<"h","t","t","p",":","/","/","x",".","m","y","t","e","s","t","/">>,
         books |-> <<"h","t","t","p",":","/","/","b","o","o","k","s",".","t","o","s","c",
                     "r","a","p","e",".","c","o","m","/">>]

\* href attribute values (line 142; line 89 of bookscraper.py): relative
\* references, a mailto link, hrefs that urllib.parse refuses (a netloc with
\* an unmatched bracket, as written and behind a percent escape), hrefs that
\* urljoin rewrites (blanks and a tab that urlsplit removes, an empty path
\* segment, a percent escape of "p"), and the next links of the book pages
Href ==
    [about |-> <<"/","a","b","o","u","t">>,
     aboutTeam |-> <<"/","a","b","o","u","t","#","t","e","a","m">>,
     logo |-> <<"/","l","o","g","o",".","p","n","g">>,
     root |-> <<"/">>,
     mailto |-> <<"m","a","i","l","t","o",":","a","@","s","i","t","e",".","t","e","s","t">>,
     contact |-> <<"/","c","o","n","t","a","c","t">>,
     bracket |-> <<"h","t","t","p",":","/","/","[">>,
     escBracket |-> <<"h","t","t","p",":","/","/","%","5","B",".","s","i","t","e",
                      ".","t","e","s","t","/">>,
     blanks |-> <<" ","/","a","b","\t","o","u","t">>,
     team |-> <<"t","e","a","m","/","/","x">>,
     privEsc |-> <<"/","%","7","0","r","i","v">>,
     page2 |-> <<"c","a","t","a","l","o","g","u","e","/","p","a","g","e","-","2",
                 ".","h","t","m","l">>,
     page3 |-> <<"p","a","g","e","-","3",".","h","t","m","l">>]

\* values of --url
BaseUrls == {Url.root, Url.wwwTop, Url.noScheme, Url.wwwInside}

\* values of --max-pages (5 is the value of the end-to-end scenario)
MaxPagesChoices == (1..MaxPagesBound) \cup {5}

\* values of --delay
Delays == {0, 1}

\* values of --top
TopChoices == 0..MaxTop

\* values of the Content-Type header (line 131)
CT ==
    [html |-> <<"t","e","x","t","/","h","t","m","l",";"," ","c","h","a","r",
                "s","e","t","=","u","t","f","-","8">>,
     png |-> <<"i","m","a","g","e","/","p","n","g">>]
\* the text line 132 looks for
T_html == <<"t","e","x","t","/","h","t","m","l">>

\* an <a href=...> element and the element that holds it
Anchor(href, within) == [href |-> href, within |-> within]

\* parsed documents: the anchors with an href attribute in document order,
\* the elements that hold the h1, h2 and h3 elements, and the other signals
\* extract_content reads behind the removal of lines 61-62
NoDoc ==
    [anchors |-> <<>>, headings |-> <<>>, content_length |-> 0, meta_len |-> 0]
Doc ==
    [home |->
         [anchors |-> <<Anchor(Href.contact, "nav"), Anchor(Href.about, "main"),
                        Anchor(Href.logo, "main"), Anchor(Href.contact, "footer")>>,
          headings |-> <<"header", "main", "main", "main">>,
          content_length |-> 500, meta_len |-> 50],
     leaf |->
         [anchors |-> <<>>, headings |-> <<"article">>,
          content_length |-> 300, meta_len |-> 0],
     dups |->
         [anchors |-> <<Anchor(Href.aboutTeam, "main"), Anchor(Href.blanks, "main"),
                        Anchor(Href.privEsc, "body")>>,
          headings |-> <<"main">>,
          content_length |-> 300, meta_len |-> 0],
     out |->
         [anchors |-> <<Anchor(Url.other, "body"), Anchor(Href.root, "body"),
                        Anchor(Href.mailto, "body"), Anchor(Url.mytest, "body"),
                        Anchor(Href.escBracket, "body")>>,
          headings |-> <<>>,
          content_length |-> 120, meta_len |-> 10],
     bad |->
         [anchors |-> <<Anchor(Href.team, "main"), Anchor(Href.bracket, "main"),
                        Anchor(Href.about, "main")>>,
          headings |-> <<"main", "aside">>,
          content_length |-> 200, meta_len |-> 0]]
Docs == {Doc.home, Doc.leaf, Doc.dups, Doc.out, Doc.bad}

\* requests.exceptions: RequestException and its subclasses
RequestExceptions ==
    {"RequestException", "InvalidJSONError", "JSONDecodeError", "HTTPError",
     "ConnectionError", "ProxyError", "SSLError", "Timeout", "ConnectTimeout",
     "ReadTimeout", "URLRequired", "TooManyRedirects", "MissingSchema",
     "InvalidSchema", "InvalidURL", "InvalidHeader", "InvalidProxyURL",
     "ChunkedEncodingError", "ContentDecodingError", "StreamConsumedError",
     "RetryError", "UnrewindableBodyError"}

\* what session.get(url, timeout=15) can do: raise, or return a response
Responses ==
    { [exc |-> e, status |-> 0, ctype |-> <<>>, doc |-> NoDoc] :
          e \in {"Timeout", "ConnectionError", "TooManyRedirects"} }
    \cup { [exc |-> "", status |-> st, ctype |-> CT.html, doc |-> Doc.leaf] :
          st \in {204, 404} }
    \cup { [exc |-> "", status |-> 200, ctype |-> CT.png, doc |-> NoDoc] }
    \cup { [exc |-> "", status |-> 200, ctype |-> CT.html, doc |-> d] :
          d \in Docs }

\* s in t for texts (substring test)
Contains(t, sub) ==
    \E i \in 0..(Len(t) - Len(sub)) : SubSeq(t, i + 1, i + Len(sub)) = sub

(***************************************************************************)
(* State of main and crawl_site (lines 102-157, 180-195).                  *)
(***************************************************************************)
VARIABLES
    base_url,   \* args.url
    max_pages,  \* args.max_pages
    delay,      \* args.delay
    top_n,      \* args.top
    rp,         \* the RobotFileParser of the run
    robots,     \* what the request for robots.txt did
    visited,    \* set of URLs
    queue,      \* the frontier, a FIFO of URLs
    results,    \* list of page records
    url,        \* the URL of the current iteration
    soup,       \* the parsed document of the current iteration
    pc,         \* position in crawl_site / main
    log,        \* the calls made so far: <<"get", url, response>>, <<"sleep", delay>>
    csv,        \* the report: whether the file was written, and its rows
    enqueued    \* history: every URL put into the queue so far, in order

(***************************************************************************)
(* State of scrape_books (bookscraper.py lines 13-111).                    *)
(***************************************************************************)
VARIABLES
    current_url,  \* the URL of the next page, "" for None
    all_books,    \* list of the books collected so far
    books_pc,     \* position in scrape_books
    books_csv,    \* output_file: whether it was written, and its rows
    fetched       \* history: what every requests.get so far did

crawlVars == <<base_url, max_pages, delay, top_n, rp, robots, visited, queue,
               results, url, soup, pc, log, csv, enqueued>>

bookVars == <<current_url, all_books, books_pc, books_csv, fetched>>

vars == <<crawlVars, bookVars>>

args == <<base_url, max_pages, delay, top_n>>

NoOutcome == [kind |-> "none", status |-> 0, disallow |-> <<>>]

\* no report file exists
NoFile == [written |-> FALSE, rows |-> <<>>]

\* scrape_books is not running
BooksNotStarted ==
    /\ current_url = <<>>
    /\ all_books = <<>>
    /\ books_pc = "idle"
    /\ books_csv = NoFile
    /\ fetched = <<>>

Init ==
    /\ base_url \in BaseUrls
    /\ max_pages \in MaxPagesChoices
    /\ delay \in Delays
    /\ top_n \in TopChoices
    /\ rp = NewRobotFileParser
    /\ robots = NoOutcome
    /\ visited = {}
    /\ queue = <<>>
    /\ results = <<>>
    /\ url = <<>>
    /\ soup = NoDoc
    /\ pc = "start"
    /\ log = <<>>
    /\ csv = NoFile
    /\ enqueued = <<>>
    /\ BooksNotStarted

\* lines 108-113: rp = build_robot_parser(base_url); visited = set();
\* queue = deque([base_url]); results = []
Start ==
    /\ pc = "start"
    /\ IF BaseDomain(base_url) = ValueError
       THEN \* line 108: urlparse(base_url) raises
            /\ pc' = "raised"
            /\ UNCHANGED <<robots, rp, visited, queue, enqueued, results>>
       ELSE /\ \E outcome \in RobotsOutcomes :
                  /\ robots' = outcome
                  /\ rp' = build_robot_parser(outcome)
            /\ visited' = {}
            /\ queue' = <<base_url>>
            /\ enqueued' = <<base_url>>
            /\ results' = <<>>
            /\ pc' = "loop"
    /\ UNCHANGED <<args, bookVars, url, soup, log, csv>>

\* the loop test with the bound compared by <= instead of <
LoopCond_OffByOne(q, vis, maxp) == q # <<>> /\ Cardinality(vis) <= maxp

\* line 115: while queue and len(visited) < max_pages
LoopCond(q, vis, maxp) == q # <<>> /\ Cardinality(vis) < maxp

\* the discard test without the test for a rejected URL
Skip_NoEmpty(u, vis) == u \in vis

\* the discard test without the look-up in visited
Skip_NoVisited(u, vis) == u = <<>>

\* line 118: if not url or url in visited: continue
Skip(u, vis) == u = <<>> \/ u \in vis

\* lines 116-119 on the URL popped: url is assigned unless clean_url
\* raises, and the iteration goes on to the gate unless the URL is discarded
LoopHead(popped) ==
    IF clean_url(popped) = ValueError
    THEN url' = popped /\ pc' = "raised"
    ELSE /\ url' = clean_url(popped)
         /\ pc' = IF Skip(url', visited) THEN "loop" ELSE "gate"

\* the loop head taking the newest entry of the queue (a stack: queue.pop())
Dequeue_Lifo ==
    /\ pc = "loop"
    /\ LoopCond(queue, visited, max_pages)
    /\ LoopHead(queue[Len(queue)])
    /\ queue' = SubSeq(queue, 1, Len(queue) - 1)
    /\ UNCHANGED <<args, bookVars, enqueued, rp, robots, visited, results, soup, log, csv>>

\* lines 115-119: one pass of the loop head: pop, normalise, discard
Dequeue ==
    /\ pc = "loop"
    /\ LoopCond(queue, visited, max_pages)
    /\ LoopHead(Head(queue))
    /\ queue' = Tail(queue)
    /\ UNCHANGED <<args, bookVars, enqueued, rp, robots, visited, results, soup, log, csv>>

\* line 157: return results
Return ==
    /\ pc = "loop"
    /\ ~LoopCond(queue, visited, max_pages)
    /\ pc' = "done"
    /\ UNCHANGED <<args, bookVars, enqueued, rp, robots, visited, queue, results, url, soup, log, csv>>

\* the robots gate leaving a disallowed URL out of visited
RobotsGate_NoMark ==
    /\ pc = "gate"
    /\ pc' = IF CanFetchRaises(rp, url) THEN "raised"
             ELSE IF RobotsDisallows(rp, url) THEN "loop" ELSE "fetch"
    /\ UNCHANGED <<args, bookVars, enqueued, rp, robots, visited, queue, results, url, soup, log, csv>>

\* lines 121-123: the robots gate; a ValueError of can_fetch is raised
\* outside the try statement of line 125
RobotsGate ==
    /\ pc = "gate"
    /\ IF CanFetchRaises(rp, url)
       THEN /\ pc' = "raised"
            /\ UNCHANGED visited
       ELSE IF RobotsDisallows(rp, url)
       THEN /\ visited' = visited \cup {url}
            /\ pc' = "loop"
       ELSE /\ pc' = "fetch"
            /\ UNCHANGED visited
    /\ UNCHANGED <<args, bookVars, enqueued, rp, robots, queue, results, url, soup, log, csv>>

\* line 153: except requests.RequestException
Caught(e) == e \in RequestExceptions

\* lines 126, 153-155: session.get raises
FetchRaises ==
    /\ pc = "fetch"
    /\ \E r \in Responses :
          /\ r.exc # ""
          /\ log' = Append(log, <<"get", url, r>>)
          /\ IF Caught(r.exc)
             THEN /\ visited' = visited \cup {url}
                  /\ pc' = "loop"
             ELSE /\ pc' = "raised"
                  /\ UNCHANGED visited
    /\ UNCHANGED <<args, bookVars, enqueued, rp, robots, queue, results, url, soup, csv>>

\* line 127: if resp.status_code != 200
BadStatus(r) == r.status # 200

\* line 132: if "text/html" not in content_type
NotHtml(r) == ~Contains(r.ctype, T_html)

\* the skipped response leaving its URL out of visited
FetchSkipped_NoMark ==
    /\ pc = "fetch"
    /\ \E r \in Responses :
          /\ r.exc = ""
          /\ BadStatus(r) \/ NotHtml(r)
          /\ log' = Append(log, <<"get", url, r>>)
    /\ pc' = "loop"
    /\ UNCHANGED <<args, bookVars, enqueued, rp, robots, visited, queue, results, url, soup, csv>>

\* lines 126-134: session.get returns a response that is skipped
FetchSkipped ==
    /\ pc = "fetch"
    /\ \E r \in Responses :
          /\ r.exc = ""
          /\ BadStatus(r) \/ NotHtml(r)
          /\ log' = Append(log, <<"get", url, r>>)
    /\ visited' = visited \cup {url}
    /\ pc' = "loop"
    /\ UNCHANGED <<args, bookVars, enqueued, rp, robots, queue, results, url, soup, csv>>

\* lines 137-138: data = extract_content(soup); data["url"] = url
PageRecord(u, data) ==
    [url |-> u, content_length |-> data.content_length, score |-> data.score]

\* lines 126-139: session.get returns an HTML page; its record is appended
FetchPage ==
    /\ pc = "fetch"
    /\ \E r \in Responses :
          /\ r.exc = ""
          /\ ~BadStatus(r) /\ ~NotHtml(r)
          /\ log' = Append(log, <<"get", url, r>>)
          /\ soup' = Decompose(r.doc)
          /\ results' = Append(results, PageRecord(url, extract_content(r.doc)))
    /\ pc' = "links"
    /\ UNCHANGED <<args, bookVars, enqueued, rp, robots, visited, queue, url, csv>>

\* lines 144-149: what one normalised href adds to the queue
LinkToAppend(href, base_domain, vis) ==
    IF href = <<>> THEN <<>>
    ELSE IF ~same_domain(href, base_domain) THEN <<>>
    ELSE IF href \notin vis THEN <<href>>
    ELSE <<>>

\* line 143 raises ValueError for the href text a of a page: urljoin
\* raises, or clean_url does on what urljoin returns
HrefRaises(page, a) ==
    With(urljoin(page, a), LAMBDA joined :
        joined = ValueError \/ clean_url(joined) = ValueError)

\* the number of hrefs that the loop of line 142 handles before line 143
\* raises: all of them when none raises
HrefsHandled(hrefs, page) ==
    IF \E i \in 1..Len(hrefs) : HrefRaises(page, hrefs[i])
    THEN (CHOOSE i \in 1..Len(hrefs) :
              /\ HrefRaises(page, hrefs[i])
              /\ \A j \in 1..(i - 1) : ~HrefRaises(page, hrefs[j])) - 1
    ELSE Len(hrefs)

\* lines 142-149: the links that the given hrefs of a page append to the
\* queue, none of them raising
RECURSIVE NewLinks(_, _, _, _)
NewLinks(hrefs, page, base_domain, vis) ==
    With(hrefs, LAMBDA as :
        IF as = <<>> THEN <<>>
        ELSE With(clean_url(urljoin(page, Head(as))),
                  LAMBDA href : LinkToAppend(href, base_domain, vis))
             \o NewLinks(Tail(as), page, base_domain, vis))

\* lines 142-149: for a in soup.find_all("a", href=True); the ValueError of
\* line 143 is no requests.RequestException and leaves crawl_site
CollectLinks ==
    /\ pc = "links"
    /\ queue' = queue \o With(BaseDomain(base_url), LAMBDA base_domain :
                     With(HrefsHandled(Hrefs(soup), url), LAMBDA n :
                        NewLinks(SubSeq(Hrefs(soup), 1, n), url,
                                 base_domain, visited)))
    /\ enqueued' = enqueued \o SubSeq(queue', Len(queue) + 1, Len(queue'))
    /\ pc' = IF HrefsHandled(Hrefs(soup), url) < Len(Hrefs(soup))
             THEN "raised" ELSE "mark"
    /\ UNCHANGED <<args, bookVars, rp, robots, visited, results, url, soup, log, csv>>

\* the success path without visited.add(url)
MarkVisited_Missing ==
    /\ pc = "mark"
    /\ pc' = "sleep"
    /\ UNCHANGED <<args, bookVars, enqueued, rp, robots, visited, queue, results, url, soup, log, csv>>

\* line 151: visited.add(url)
MarkVisited ==
    /\ pc = "mark"
    /\ visited' = visited \cup {url}
    /\ pc' = "sleep"
    /\ UNCHANGED <<args, bookVars, enqueued, rp, robots, queue, results, url, soup, log, csv>>

\* line 152: time.sleep(delay)
Sleep ==
    /\ pc = "sleep"
    /\ log' = Append(log, <<"sleep", delay>>)
    /\ pc' = "loop"
    /\ UNCHANGED <<args, bookVars, enqueued, rp, robots, visited, queue, results, url, soup, csv>>

\* lines 190-192: if not rows: print(...); return
MainNoRows ==
    /\ pc = "done"
    /\ results = <<>>
    /\ pc' = "exit"
    /\ UNCHANGED <<args, bookVars, enqueued, rp, robots, visited, queue, results, url, soup, log, csv>>

\* line 194: save_csv(rows, args.output, args.top)
MainSaveCsv ==
    /\ pc = "done"
    /\ results # <<>>
    /\ csv' = [written |-> TRUE, rows |-> save_csv(results, top_n)]
    /\ pc' = "exit"
    /\ UNCHANGED <<args, bookVars, enqueued, rp, robots, visited, queue, results, url, soup, log>>

Next ==
    \/ Start
    \/ Dequeue
    \/ Return
    \/ RobotsGate
    \/ FetchRaises
    \/ FetchSkipped
    \/ FetchPage
    \/ CollectLinks
    \/ MarkVisited
    \/ Sleep
    \/ MainNoRows
    \/ MainSaveCsv

Spec == Init /\ [][Next]_vars

\* the program is a single sequential thread: it takes its next step
FairSpec == Spec /\ WF_vars(Next)

(***************************************************************************)
(* The reporting path alone: main at line 190 with any list of rows that   *)
(* crawl_site can have returned.                                           *)
(***************************************************************************)
\* the URL of the i-th row: pairwise distinct
RowUrl(i) == Url.root \o <<"p">> \o [k \in 1..i |-> "x"]

\* ten rows with the pairwise distinct scores 100..1000, a rotation by r of
\* the order 700, 300, 1000, 600, 200, 900, 500, 100, 800, 400
TenRows(r) ==
    [i \in 1..10 |->
        PageRecord(RowUrl(i),
            [content_length |-> 50,
             score |-> ((((((i + r) % 10) + 1) * 7) % 11) * 100)])]

\* the lists of rows explored: at most MaxRows rows with any of three
\* scores, equal scores included, and the ten-row lists
RowLists ==
    UNION { { [i \in 1..n |-> PageRecord(RowUrl(i),
                                 [content_length |-> sc[i], score |-> sc[i]])] :
                sc \in [1..n -> {140, 380, 840}] } : n \in 0..MaxRows }
    \cup {TenRows(r) : r \in 0..9}

ReportInit ==
    /\ base_url = Url.root
    /\ max_pages = 5
    /\ delay = 0
    /\ top_n \in TopChoices
    /\ rp = NewRobotFileParser
    /\ robots = NoOutcome
    /\ visited = {}
    /\ queue = <<>>
    /\ results \in RowLists
    /\ url = <<>>
    /\ soup = NoDoc
    /\ pc = "done"
    /\ log = <<>>
    /\ csv = NoFile
    /\ enqueued = <<>>
    /\ BooksNotStarted

ReportNext == MainNoRows \/ MainSaveCsv

ReportSpec == ReportInit /\ [][ReportNext]_vars

(***************************************************************************)
(* The normaliser on raw command-line URLs: crawl_site for one page with   *)
(* --url drawn from texts put together from a scheme, a host, a path, a    *)
(* query and a fragment, each present or absent.                           *)
(***************************************************************************)
RawUrls ==
    { s \o h \o p \o q \o f :
        s \in { <<>>, <<"h","t","t","p",":">>, <<"H","T","T","P","S",":">>,
                <<" ","h","t","t","p",":">>, <<"f","t","p",":">>,
                <<"m","a","i","l","t","o",":">> },
        h \in { <<>>, <<"/","/","s","i","t","e",".","t","e","s","t">>,
                <<"/","/","[",":",":","1">> },
        p \in { <<>>, <<"/","a">>, <<"/","l","o","g","o",".","p","n","g">>,
                <<"/","L","O","G","O",".","P","N","G">>,
                <<"/","É",".","P","N","G">>, <<"/","a",".","p","d","\t","f">>,
                <<"/","a",".","p","d","f","/">>, <<"/","p","d","f">> },
        q \in { <<>>, <<"?","q","=","a",".","p","n","g">> },
        f \in { <<>>, <<"#">>, <<"#","t","o","p">> } }

NormalizerInit ==
    /\ base_url \in RawUrls
    /\ max_pages = 1
    /\ delay = 0
    /\ top_n = 0
    /\ rp = NewRobotFileParser
    /\ robots = NoOutcome
    /\ visited = {}
    /\ queue = <<>>
    /\ results = <<>>
    /\ url = <<>>
    /\ soup = NoDoc
    /\ pc = "start"
    /\ log = <<>>
    /\ csv = NoFile
    /\ enqueued = <<>>
    /\ BooksNotStarted

NormalizerSpec == NormalizerInit /\ [][Next]_vars

(***************************************************************************)
(* clean_url alone (lines 31-39), called on each of the raw URLs.          *)
(***************************************************************************)
CleanInit ==
    /\ base_url \in RawUrls
    /\ max_pages = 1
    /\ delay = 0
    /\ top_n = 0
    /\ rp = NewRobotFileParser
    /\ robots = NoOutcome
    /\ visited = {}
    /\ queue = <<>>
    /\ results = <<>>
    /\ url = <<>>
    /\ soup = NoDoc
    /\ pc = "clean"
    /\ log = <<>>
    /\ csv = NoFile
    /\ enqueued = <<>>
    /\ BooksNotStarted

\* url = clean_url(base_url): the call returns None (the empty text) or a
\* URL, or it raises the ValueError of urlparse
CleanUrl ==
    /\ pc = "clean"
    /\ IF clean_url(base_url) = ValueError
       THEN url' = url /\ pc' = "raised"
       ELSE url' = clean_url(base_url) /\ pc' = "cleaned"
    /\ UNCHANGED <<args, bookVars, enqueued, rp, robots, visited, queue, results, soup, log, csv>>

CleanSpec == CleanInit /\ [][CleanUrl]_vars

(***************************************************************************)
(* extract_content alone (lines 59-99, called at line 137): one page whose  *)
(* content text, heading count and description length are drawn from       *)
(* bounded sets.                                                           *)
(***************************************************************************)
\* most h1/h2/h3 elements of a page
MaxHeadings == 3

\* a content text of n characters whose neighbours differ
ContentText(n) == [i \in 1..n |-> Chr(97 + ((i - 1) % 26))]

\* the pages: content_text (line 82) empty, short, around the cut of line
\* 90 and long, len(meta_desc), and h headings in <main> with or without
\* one more in <header>, which lines 61-62 remove
ExtractPages ==
    { [anchors |-> <<>>, content_text |-> ContentText(n),
       headings |-> [i \in 1..h |-> "main"] \o x, meta_len |-> m] :
          n \in {0, 1, 100, 239, 240, 241, 300, 500}, h \in 0..MaxHeadings,
          m \in {0, 1, 50},
          x \in {<<>>, <<"header">>} }

ExtractInit ==
    /\ base_url = Url.root
    /\ max_pages = 1
    /\ delay = 0
    /\ top_n = 0
    /\ rp = NewRobotFileParser
    /\ robots = NoOutcome
    /\ visited = {}
    /\ queue = <<>>
    /\ results = <<>>
    /\ url = Url.root
    /\ soup \in ExtractPages
    /\ pc = "extract"
    /\ log = <<>>
    /\ csv = NoFile
    /\ enqueued = <<Url.root>>
    /\ BooksNotStarted

\* lines 137-139 with the snippet of line 90: data = extract_content(soup);
\* data["url"] = url; results.append(data)
ExtractPage ==
    /\ pc = "extract"
    /\ results' =
          Append(results,
              With(extract_content([anchors |-> soup.anchors,
                                    headings |-> soup.headings,
                                    content_length |-> Len(soup.content_text),
                                    meta_len |-> soup.meta_len]),
                   LAMBDA data :
                      [url |-> url,
                       content_snippet |-> snippet(soup.content_text),
                       content_length |-> data.content_length,
                       score |-> data.score]))
    /\ soup' = Decompose(soup)
    /\ pc' = "extracted"
    /\ UNCHANGED <<args, bookVars, enqueued, rp, robots, visited, queue, url, log, csv>>

ExtractSpec == ExtractInit /\ [][ExtractPage]_vars

(***************************************************************************)
(* scrape_books (bookscraper.py lines 13-111): the pagination loop, the    *)
(* extraction of the books of a page and the CSV written behind the loop.  *)
(***************************************************************************)
\* most pages a site serves
MaxBookPages == 3

\* values of the parameter url
BookUrls == {Url.books, <<>>}

\* the characters str.strip removes (str.isspace), by code point
Whitespace ==
    {Chr(n) : n \in
        {9, 10, 11, 12, 13, 28, 29, 30, 31, 32, 133, 160, 5760, 8192, 8193,
         8194, 8195, 8196, 8197, 8198, 8199, 8200, 8201, 8202, 8232, 8233,
         8239, 8287, 12288}}
\* str.strip of whitespace
RECURSIVE LStrip(_)
LStrip(s) ==
    With(s, LAMBDA v :
        IF v # <<>> /\ Head(v) \in Whitespace THEN LStrip(Tail(v)) ELSE v)
RECURSIVE RStrip(_)
RStrip(s) ==
    With(s, LAMBDA v :
        IF v # <<>> /\ v[Len(v)] \in Whitespace
        THEN RStrip(SubSeq(v, 1, Len(v) - 1)) ELSE v)
Strip(s) == LStrip(RStrip(s))

T_NA == <<"N","/","A">>

\* lines 65-71: rating_mapping, the numbers as csv writes them
rating_mapping ==
    [r \in {"One", "Two", "Three", "Four", "Five"} |->
        CASE r = "One" -> <<"1">> [] r = "Two" -> <<"2">>
          [] r = "Three" -> <<"3">> [] r = "Four" -> <<"4">>
          [] r = "Five" -> <<"5">>]

\* line 74: the first class name that is a key of rating_mapping, else "N/A"
RatingText(rating_class) ==
    IF \E i \in 1..Len(rating_class) : rating_class[i] \in DOMAIN rating_mapping
    THEN rating_class[CHOOSE i \in 1..Len(rating_class) :
             /\ rating_class[i] \in DOMAIN rating_mapping
             /\ \A j \in 1..(i - 1) : rating_class[j] \notin DOMAIN rating_mapping]
    ELSE "N/A"

\* lines 72-77: the rating of an article
RatingOf(book) ==
    IF book.has_rating
    THEN With(RatingText(book.rating_class), LAMBDA rating_text :
             IF rating_text \in DOMAIN rating_mapping
             THEN rating_mapping[rating_text] ELSE T_NA)
    ELSE T_NA

\* lines 55-61: the price of an article
PriceOf(book) ==
    IF book.has_price THEN Strip(Remove(book.price_text, <<"£">>)) ELSE T_NA

\* lines 79-83: the dictionary appended for an article
BookOf(book) ==
    [title |-> book.title, price |-> PriceOf(book), rating |-> RatingOf(book)]

\* <article class="product_pod"> elements: whether h3 and h3.a exist,
\* whether the anchor has a title attribute and its value, the price
\* paragraph and the class list of the star-rating paragraph
Article ==
    [light |->
         [has_h3a |-> TRUE, has_title |-> TRUE, title |-> "A Light in the Attic",
          has_price |-> TRUE, price_text |-> <<"£","5","1",".","7","7">>,
          has_rating |-> TRUE, rating_class |-> <<"star-rating", "Three">>],
     velvet |->
         [has_h3a |-> TRUE, has_title |-> TRUE, title |-> "Tipping the Velvet",
          has_price |-> TRUE, price_text |-> <<" ","£","5","3",".","7","4"," ">>,
          has_rating |-> TRUE, rating_class |-> <<"star-rating">>],
     noPrice |->
         [has_h3a |-> TRUE, has_title |-> TRUE, title |-> "Soumission",
          has_price |-> FALSE, price_text |-> <<>>,
          has_rating |-> FALSE, rating_class |-> <<>>],
     noH3 |->
         [has_h3a |-> FALSE, has_title |-> FALSE, title |-> "",
          has_price |-> TRUE, price_text |-> <<"£","1",".","0","0">>,
          has_rating |-> TRUE, rating_class |-> <<"star-rating", "One">>],
     noTitleAttr |->
         [has_h3a |-> TRUE, has_title |-> FALSE, title |-> "",
          has_price |-> TRUE, price_text |-> <<"£","2",".","0","0">>,
          has_rating |-> TRUE, rating_class |-> <<"star-rating", "Two">>]]

\* lines 88-89 on a page without <li class="next">, or whose li.next holds
\* no <a>: the test of line 89 fails
NoNext == [a |-> FALSE, has_href |-> FALSE, href |-> <<>>]

\* the pages a GET can return: what soup.find_all('article',
\* class_='product_pod') returns, and what lines 88-90 read: whether
\* li.next and its <a> exist, whether that <a> has an href attribute, and
\* the value of the attribute, which can be the empty text
BookPages ==
    { [books |-> b, next |-> n] :
          b \in { <<>>, <<Article.light>>, <<Article.light, Article.velvet>>,
                  <<Article.noH3, Article.noPrice>>, <<Article.noH3>>,
                  <<Article.velvet, Article.noTitleAttr, Article.light>> },
          n \in {NoNext, [a |-> TRUE, has_href |-> FALSE, href |-> <<>>]}
                \cup { [a |-> TRUE, has_href |-> TRUE, href |-> h] :
                         h \in {Href.page2, Href.page3, Href.bracket, <<>>} } }

\* what requests.get / raise_for_status raise (lines 33-34) in the runs
\* explored, all of them requests.exceptions.RequestException
BookRequestErrors == {"Timeout", "ConnectionError", "HTTPError"}

\* the crawler is not running
CrawlNotStarted ==
    /\ base_url = <<>>
    /\ max_pages = 1
    /\ delay = 0
    /\ top_n = 0
    /\ rp = NewRobotFileParser
    /\ robots = NoOutcome
    /\ visited = {}
    /\ queue = <<>>
    /\ results = <<>>
    /\ url = <<>>
    /\ soup = NoDoc
    /\ pc = "idle"
    /\ log = <<>>
    /\ csv = NoFile
    /\ enqueued = <<>>

\* lines 22-23: all_books = []; current_url = url
BooksInit ==
    /\ CrawlNotStarted
    /\ current_url \in BookUrls
    /\ all_books = <<>>
    /\ books_pc = "loop"
    /\ books_csv = NoFile
    /\ fetched = <<>>

\* the except branch writing what was collected before the error
ScrapeRaises_SavesPartial ==
    /\ books_pc = "loop"
    /\ current_url # <<>>
    /\ Len(fetched) < MaxBookPages
    /\ \E e \in BookRequestErrors :
          fetched' = Append(fetched, [url |-> current_url, error |-> e,
                                      page |-> [books |-> <<>>, next |-> NoNext]])
    /\ books_csv' = IF all_books # <<>>
                    THEN [written |-> TRUE, rows |-> all_books] ELSE books_csv
    /\ books_pc' = "request_error"
    /\ UNCHANGED <<crawlVars, current_url, all_books>>

\* lines 33-34, 108-109: requests.get or raise_for_status raises; the
\* except branch prints the error
ScrapeRaises ==
    /\ books_pc = "loop"
    /\ current_url # <<>>
    /\ Len(fetched) < MaxBookPages
    /\ \E e \in BookRequestErrors :
          fetched' = Append(fetched, [url |-> current_url, error |-> e,
                                      page |-> [books |-> <<>>, next |-> NoNext]])
    /\ books_pc' = "request_error"
    /\ UNCHANGED <<crawlVars, current_url, all_books, books_csv>>

\* the first article of the list whose h3.a['title'] raises KeyError, 0 if
\* there is none
FirstKeyError(books) ==
    IF \E i \in 1..Len(books) : books[i].has_h3a /\ ~books[i].has_title
    THEN CHOOSE i \in 1..Len(books) :
            /\ books[i].has_h3a /\ ~books[i].has_title
            /\ \A j \in 1..(i - 1) : ~(books[j].has_h3a /\ ~books[j].has_title)
    ELSE 0

\* lines 47-83: the dictionaries appended for a list of articles; articles
\* without h3 or h3.a are skipped
RECURSIVE BooksOf(_)
BooksOf(books) ==
    With(books, LAMBDA bs :
        IF bs = <<>> THEN <<>>
        ELSE (IF Head(bs).has_h3a THEN <<BookOf(Head(bs))>> ELSE <<>>)
             \o BooksOf(Tail(bs)))

\* lines 26-93: one pass of the loop for a page that was received
ScrapePage ==
    /\ books_pc = "loop"
    /\ current_url # <<>>
    /\ Len(fetched) < MaxBookPages
    /\ \E page \in BookPages :
          /\ fetched' = Append(fetched, [url |-> current_url, error |-> "",
                                         page |-> page])
          /\ IF page.books = <<>>
             THEN \* lines 42-44: break
                  /\ books_pc' = "save"
                  /\ UNCHANGED <<current_url, all_books>>
             ELSE IF FirstKeyError(page.books) # 0
             THEN \* line 51 raises KeyError, caught at line 110
                  /\ all_books' = all_books
                        \o BooksOf(SubSeq(page.books, 1,
                                          FirstKeyError(page.books) - 1))
                  /\ books_pc' = "unexpected_error"
                  /\ UNCHANGED current_url
             ELSE /\ all_books' = all_books \o BooksOf(page.books)
                  /\ IF ~page.next.a
                     THEN \* line 93: current_url = None
                          /\ current_url' = <<>>
                          /\ books_pc' = "loop"
                     ELSE IF ~page.next.has_href
                     THEN \* line 90 raises KeyError, caught at line 110
                          /\ books_pc' = "unexpected_error"
                          /\ UNCHANGED current_url
                     ELSE IF urljoin(current_url, page.next.href) = ValueError
                     THEN \* line 91 raises ValueError, caught at line 110
                          /\ books_pc' = "unexpected_error"
                          /\ UNCHANGED current_url
                     ELSE \* line 91; the site serves at most MaxBookPages pages
                          /\ Len(fetched) + 1 < MaxBookPages
                          /\ current_url' = urljoin(current_url, page.next.href)
                          /\ books_pc' = "loop"
    /\ UNCHANGED <<crawlVars, books_csv>>

\* line 26: while current_url, with current_url false
LoopEnds ==
    /\ books_pc = "loop"
    /\ current_url = <<>>
    /\ books_pc' = "save"
    /\ UNCHANGED <<crawlVars, current_url, all_books, books_csv, fetched>>

\* lines 96-106: the CSV is written if a book was collected
SaveBooks ==
    /\ books_pc = "save"
    /\ books_csv' = IF all_books # <<>>
                    THEN [written |-> TRUE, rows |-> all_books] ELSE books_csv
    /\ books_pc' = "done"
    /\ UNCHANGED <<crawlVars, current_url, all_books, fetched>>

BooksNext ==
    \/ ScrapeRaises
    \/ ScrapePage
    \/ LoopEnds
    \/ SaveBooks

BooksSpec == BooksInit /\ [][BooksNext]_vars

(***************************************************************************)
(* Properties.                                                             *)
(***************************************************************************)
\* the crawl is at the head of the loop or has returned
AtBoundary == pc \in {"loop", "done", "exit"}

\* the GET requests made so far, in order: <<"get", url, response>>
Gets == SelectSeq(log, LAMBDA e : e[1] = "get")

\* the set of URLs requested so far
GetUrls == {log[i][2] : i \in {k \in 1..Len(log) : log[k][1] = "get"}}

\* the number of requests made so far for the URL u
GetCount(u) == Cardinality({k \in 1..Len(log) : log[k][1] = "get" /\ log[k][2] = u})

\* C1: with max_pages >= 1, at every loop-iteration boundary and at return
\* len(results) <= len(visited) <= max_pages, and len(visited) never
\* decreases.
C1_SizeBounds ==
    /\ [](max_pages >= 1 /\ AtBoundary =>
             /\ Len(results) <= Cardinality(visited)
             /\ Cardinality(visited) <= max_pages)
    /\ [][Cardinality(visited') >= Cardinality(visited)]_vars

\* a boundary where the bound is met exactly and fewer records than
\* visited URLs exist
C1_Witness ==
    /\ pc = "loop"
    /\ max_pages = 2
    /\ Cardinality(visited) = max_pages
    /\ Len(results) = 1
    /\ queue # <<>>

\* C2: the url values of the records in results are pairwise distinct.
C2_DistinctUrls ==
    \A i, j \in 1..Len(results) : i # j => results[i].url # results[j].url

\* two records exist and the next URL of the frontier is a duplicate of a
\* URL that already has a record
C2_Witness ==
    /\ pc = "loop"
    /\ Len(results) >= 2
    /\ queue # <<>>
    /\ \E i \in 1..Len(results) : results[i].url = clean_url(Head(queue))

\* C3: if the request for robots.txt raised a transport error, can_fetch
\* is true for every URL that reaches the robots gate.
C3_FailOpen ==
    (robots.kind = "url_error" /\ pc = "gate") => can_fetch(rp, url)

\* crawl_site has returned
Returned == pc \in {"done", "exit"}

\* C4: crawl_site eventually returns, and when it has returned the frontier
\* is empty or len(visited) = max_pages.
C4_Terminates ==
    /\ <>Returned
    /\ [](Returned => (queue = <<>> \/ Cardinality(visited) = max_pages))

\* C5: between two consecutive GET requests there is a sleep: every GET
\* but the first comes directly after a sleep.
C5_SleepBetweenFetches ==
    \A i \in 2..Len(log) : log[i][1] = "get" => log[i-1][1] = "sleep"

\* the site of the end-to-end scenario: / is an HTML page linking to /about
\* and /logo.png, /about is an HTML page, /logo.png is an image and there
\* is nothing else
SiteTest(u) ==
    IF u = Url.root THEN [exc |-> "", status |-> 200, ctype |-> CT.html, doc |-> Doc.home]
    ELSE IF u = Url.about
         THEN [exc |-> "", status |-> 200, ctype |-> CT.html, doc |-> Doc.leaf]
    ELSE IF u = Url.logo
         THEN [exc |-> "", status |-> 200, ctype |-> CT.png, doc |-> NoDoc]
    ELSE [exc |-> "", status |-> 404, ctype |-> CT.html, doc |-> Doc.leaf]

\* the site has no robots restrictions: robots.txt holds no rule, does not
\* exist (404), or cannot be retrieved
NoRobotsRestrictions ==
    robots \in { [kind |-> "body", status |-> 200, disallow |-> <<>>],
                 [kind |-> "http_error", status |-> 404, disallow |-> <<>>],
                 [kind |-> "url_error", status |-> 0, disallow |-> <<>>] }

\* the run is the end-to-end scenario so far: base URL http://site.test/,
\* max_pages = 5, delay = 0, no robots restrictions, and every GET answered
\* by the site
EndToEnd ==
    /\ base_url = Url.root
    /\ max_pages = 5
    /\ delay = 0
    /\ pc # "start"
    /\ NoRobotsRestrictions
    /\ \A k \in 1..Len(log) : log[k][1] = "get" => log[k][3] = SiteTest(log[k][2])

\* C6: in the end-to-end scenario crawl_site returns exactly the records of
\* / and /about, in that order, and /logo.png is never requested.
C6_EndToEnd ==
    EndToEnd =>
        /\ Url.logo \notin GetUrls
        /\ Returned =>
              /\ Len(results) = 2
              /\ results[1].url = Url.root
              /\ results[2].url = Url.about

\* rank of row i of rows in the stable order by score descending: one more
\* than the number of rows that go before it
Rank(rows, i) ==
    1 + Cardinality({j \in 1..Len(rows) :
                        \/ rows[j].score > rows[i].score
                        \/ (rows[j].score = rows[i].score /\ j < i)})

\* C7: the report holds the rows stable-sorted by score descending, cut to
\* the first top_n rows, all rows when top_n = 0; ten rows of distinct
\* scores and top_n = 3 give the three highest scores in descending order.
C7_TopN ==
    csv.written =>
        /\ Len(csv.rows) =
              IF top_n = 0 \/ top_n > Len(results) THEN Len(results) ELSE top_n
        /\ \A i \in 1..Len(results) :
              Rank(results, i) <= Len(csv.rows)
                  => csv.rows[Rank(results, i)] = results[i]
        /\ (Len(results) = 10 /\ top_n = 3) =>
              /\ csv.rows[1].score = 1000
              /\ csv.rows[2].score = 900
              /\ csv.rows[3].score = 800

\* a report of the three best of ten rows
C7_Witness ==
    /\ csv.written
    /\ Len(results) = 10
    /\ top_n = 3
    /\ Len(csv.rows) = 3

\* C8: an iteration whose URL the robots gate disallows adds the URL to
\* visited (one more visited URL), makes no request, appends no record and
\* leaves the frontier as it is.
C8_DisallowedFrame ==
    [][(pc = "gate" /\ RobotsDisallows(rp, url)) =>
          /\ url \notin visited
          /\ visited' = visited \cup {url}
          /\ Cardinality(visited') = Cardinality(visited) + 1
          /\ log' = log
          /\ results' = results
          /\ queue' = queue
          /\ pc' = "loop"]_vars

\* /priv was disallowed by a rule of robots.txt after a page was recorded
C8_Witness ==
    /\ pc = "loop"
    /\ url = Url.privEsc
    /\ Url.privEsc \in visited
    /\ robots.disallow = <<P_priv>>
    /\ results # <<>>
    /\ Url.privEsc \notin GetUrls

\* a fetch failure as the specification lists them: timeout, connection
\* error, a status outside 200..299, a content type that is not HTML
FetchFailure(r) ==
    \/ r.exc \in {"Timeout", "ConnectionError"}
    \/ r.exc = "" /\ (r.status < 200 \/ r.status > 299)
    \/ r.exc = "" /\ ~Contains(r.ctype, T_html)

\* C9: a fetch failure marks the URL visited, appends no record, enqueues
\* no link and leads to the next iteration; crawl_site is never aborted.
C9_FailuresAbsorbed ==
    /\ [][(pc = "fetch" /\ FetchFailure(log'[Len(log')][3])) =>
             /\ visited' = visited \cup {url}
             /\ results' = results
             /\ queue' = queue
             /\ pc' = "loop"]_vars
    /\ [](pc # "raised")

\* C10: a URL is requested at most once, enters visited in the iteration
\* that processes it, whatever the outcome of that iteration (the next
\* pass of the loop, the return, or an exception that leaves crawl_site),
\* and never leaves visited.
C10_AtMostOnce ==
    /\ [](\A u \in GetUrls : GetCount(u) = 1)
    /\ []((AtBoundary \/ pc = "raised")
             => /\ GetUrls \subseteq visited
                /\ url # <<>> => url \in visited)
    /\ [][visited \subseteq visited' /\ visited' \subseteq visited \cup {url}]_vars

\* the URLs of the records of a list, in order
RecordUrls(rows) == [i \in 1..Len(rows) |-> rows[i].url]

\* the URLs whose GET returned a page that was recorded, in order of the GETs
ProcessedUrls ==
    With(SelectSeq(Gets, LAMBDA e : e[3].exc = "" /\ e[3].status = 200
                                     /\ Contains(e[3].ctype, T_html)),
         LAMBDA g : [i \in 1..Len(g) |-> g[i][2]])

\* the position in the queue's history at which the URL u first entered it,
\* c being the normalised entries of that history; 0 if it never did
FirstEnqueued(c, u) ==
    IF \E k \in 1..Len(c) : c[k] = u
    THEN CHOOSE k \in 1..Len(c) : c[k] = u /\ \A m \in 1..(k - 1) : c[m] # u
    ELSE 0

\* the records are in processing order, and that is the order in which their
\* URLs first entered the queue
ResultsInDiscoveryOrder ==
    With(RecordUrls(results), LAMBDA us :
        /\ us = ProcessedUrls
        /\ With([k \in 1..Len(enqueued) |-> clean_url(enqueued[k])], LAMBDA c :
              With([i \in 1..Len(us) |-> FirstEnqueued(c, us[i])], LAMBDA f :
                  /\ \A i \in 1..Len(f) : f[i] > 0
                  /\ \A i \in 1..Len(f) : \A j \in 1..Len(f) :
                        i < j => f[i] < f[j])))

\* C11: the list crawl_site returns holds the records in the order their
\* pages were processed, which is the order in which their URLs first entered
\* the FIFO queue (breadth-first discovery); writing the report (the sort in
\* save_csv) leaves the returned list as it was.
C11_DiscoveryOrder ==
    /\ []ResultsInDiscoveryOrder
    /\ [][pc = "done" => results' = results]_vars

\* a run that returned three records whose report has another order than
\* the returned list
C11_Witness ==
    /\ pc = "exit"
    /\ csv.written
    /\ top_n = 0
    /\ Len(results) = 3
    /\ Len(csv.rows) = 3
    /\ csv.rows # results

U_blogPost == <<"h","t","t","p",":","/","/","b","l","o","g",".","e","x","a","m","p","l","e",
                ".","c","o","m","/","p">>
U_evilPath == <<"h","t","t","p",":","/","/","e","v","i","l",".","c","o","m","/",
                "e","x","a","m","p","l","e",".","c","o","m">>
T_example == <<"e","x","a","m","p","l","e",".","c","o","m">>
T_www == <<"w","w","w",".">>

\* the host of a URL, lower-cased
HostOf(u) == Lower(urlparse(u).netloc)

\* the host of the base URL with a leading "www." stripped and nothing else
\* removed
LeadingWwwStripped(base) ==
    With(HostOf(base), LAMBDA host :
        IF StartsWith(host, T_www) THEN From(host, Len(T_www)) ELSE host)

\* the host of u is domain or a subdomain of it
InScope(u, domain) ==
    With(HostOf(u), LAMBDA host :
        host = domain \/ EndsWith(host, <<".">> \o domain))

\* C12: a discovered link is enqueued only if its host is base_domain or ends
\* with "." + base_domain, base_domain being the host of the base URL with a
\* leading "www." stripped and nothing else removed: same_domain accepts
\* http://blog.example.com/p and rejects http://evil.com/example.com for
\* example.com, and every URL that entered the queue after the base URL is in
\* scope of that base_domain.
C12_Scope ==
    /\ same_domain(U_blogPost, T_example)
    /\ ~same_domain(U_evilPath, T_example)
    /\ With(LeadingWwwStripped(base_url), LAMBDA domain :
          \A k \in 2..Len(enqueued) : InScope(enqueued[k], domain))

\* the text t holds the character "#"
HasHash(t) == \E i \in 1..Len(t) : t[i] = "#"

\* the path ends with a skip-listed extension, letter case ignored
EndsWithSkipListed(path) ==
    \E ext \in SKIP_EXTENSIONS :
        /\ Len(ext) <= Len(path)
        /\ \A k \in 1..Len(ext) :
              LowerChar(path[Len(path) - Len(ext) + k]) = <<ext[k]>>

\* the parsed URL is one the normaliser has to reject
Rejected(p) ==
    \/ p.scheme = <<>>
    \/ p.netloc = <<>>
    \/ p.scheme \notin {S_http, S_https}
    \/ EndsWithSkipListed(p.path)

\* out is what the normaliser has to return for the text raw
NormalisedAs(raw, out) ==
    With(urlparse(raw), LAMBDA p :
        IF Rejected(p) THEN out = <<>>
        ELSE /\ out # <<>>
             /\ ~HasHash(out)
             /\ urlparse(out) = [p EXCEPT !.fragment = <<>>])

\* C13: clean_url returns the empty result for an input without scheme or
\* host, with a scheme other than http and https, or with a path that ends
\* (letter case ignored) with a skip-listed extension; for every other input
\* it returns the same URL without its fragment, a text without "#"; and no
\* URL in visited holds a fragment.
C13_Normalised ==
    /\ pc # "raised"
    /\ pc = "cleaned" => NormalisedAs(base_url, url)
    /\ \A u \in visited : ~HasHash(u) /\ urlparse(u).fragment = <<>>

\* the part of C13 that holds: inside crawl_site the URL taken from the
\* queue is normalised as C13 says, and no URL in visited holds a fragment
C13_NormalisedAtDequeue ==
    /\ [][pc = "loop" /\ pc' \in {"loop", "gate"} /\ queue # <<>>
            => NormalisedAs(Head(queue), url')]_vars
    /\ [](\A u \in visited : ~HasHash(u) /\ urlparse(u).fragment = <<>>)

\* C14: the score of an extracted page is content_length + h_count * 80 +
\* 2 * len(meta_description), a function of those three numbers alone; a
\* page of 500 characters with 3 headings and a description of 50 characters
\* scores 840.
C14_Score ==
    \A i \in 1..Len(results) :
        With(results[i], LAMBDA r :
            /\ r.content_length = Len(soup.content_text)
            /\ r.score - r.content_length - 2 * soup.meta_len
                  = 80 * Cardinality({k \in 1..Len(soup.headings) :
                                        soup.headings[k] = "main"})
            /\ (r.content_length = 500 /\ Len(soup.headings) = 3
                    /\ soup.meta_len = 50)
                  => r.score = 840)

\* the page of 500 characters, 3 headings and a 50-character description
\* was extracted
C14_Witness ==
    /\ pc = "extracted"
    /\ Len(soup.content_text) = 500
    /\ soup.headings = <<"main", "main", "main">>
    /\ soup.meta_len = 50
    /\ results[1].score = 840

\* C15: content_snippet is the first 240 characters of content_text followed
\* by the marker "..." exactly when content_text is longer than 240
\* characters, and the whole content_text without marker otherwise: a text
\* of 300 characters gives 240 characters and the marker, texts of 100 and
\* of 240 characters are kept as they are.
C15_Snippet ==
    \A i \in 1..Len(results) :
        With(results[i].content_snippet, LAMBDA s :
          With(soup.content_text, LAMBDA t :
            IF Len(t) > 240
            THEN /\ Len(s) = 243
                 /\ \A k \in 1..240 : s[k] = t[k]
                 /\ \A k \in 241..243 : s[k] = "."
            ELSE s = t))

\* a text of 300 characters was cut to 240 characters and the marker
C15_Witness ==
    /\ pc = "extracted"
    /\ Len(soup.content_text) = 300
    /\ Len(results[1].content_snippet) = 243

\* C16: when the URL taken from the queue is rejected by the normaliser (bad
\* scheme, missing host, skip-listed extension), the iteration ends there:
\* the robots gate is not reached, no request is made, and visited and
\* results are as before, so the URL does not count toward max_pages.
C16_RejectedDiscarded ==
    [][(/\ pc = "loop"
        /\ pc' \in {"loop", "gate"}
        /\ queue # <<>>
        /\ Rejected(urlparse(Head(queue))))
       => /\ pc' = "loop"
          /\ queue' = Tail(queue)
          /\ visited' = visited
          /\ results' = results
          /\ log' = log]_vars

\* an ftp URL with a host was taken from the queue and dropped: the crawl
\* returned with nothing visited and nothing requested, robots.txt allowing
\* everything
C16_Witness ==
    /\ pc = "done"
    /\ StartsWith(base_url, <<"f","t","p",":","/","/">>)
    /\ robots.kind = "body"
    /\ robots.disallow = <<>>
    /\ queue = <<>>
    /\ visited = {}
    /\ results = <<>>
    /\ log = <<>>

\* C17 as stated: in every reachable state of crawl_site, the states between
\* the append of a record and the end of that iteration included, the url of
\* every record in results is in visited.
C17_RecordsVisited ==
    \A i \in 1..Len(results) : results[i].url \in visited

\* C17, amended: whenever the crawl is at the head of the loop or has
\* returned, the url of every record is in visited; inside an iteration the
\* only record whose url can be missing from visited is the one the
\* iteration appended for its own URL, from the append of line 139 to
\* visited.add of line 151, or to the ValueError of line 143 that ends the
\* crawl before line 151.
C17_RecordsVisitedAtBoundary ==
    /\ AtBoundary => \A i \in 1..Len(results) : results[i].url \in visited
    /\ \A i \in 1..Len(results) :
          results[i].url \notin visited
             => /\ i = Len(results)
                /\ results[i].url = url
                /\ pc \in {"links", "mark", "raised"}

\* the second iteration has appended its record and has not yet reached
\* visited.add: the record's url is not in visited, the first record's is
C17_Witness ==
    /\ pc = "mark"
    /\ Len(results) = 2
    /\ results[1].url \in visited
    /\ results[2].url = url
    /\ url \notin visited

\* the response of the GET that the step makes
ResponseOfStep == log'[Len(log')][3]

\* the step makes a GET
GetStep == pc = "fetch" /\ Len(log') = Len(log) + 1

\* the hrefs of the current page, resolved and normalised, that same_domain
\* accepts for the crawl's base_domain and that are not in visited
AcceptedLinks ==
    With(BaseDomain(base_url), LAMBDA base_domain :
        SelectSeq([i \in 1..Len(Hrefs(soup)) |->
                      clean_url(urljoin(url, Hrefs(soup)[i]))],
                  LAMBDA h : /\ h # <<>>
                             /\ same_domain(h, base_domain)
                             /\ h \notin visited))

\* C18 as stated: whenever the GET of an allowed URL that is not in visited
\* returns any 2xx status with an HTML content type, one record is appended
\* for it and the iteration goes on to its links; only non-2xx statuses are
\* failures.
C18_Any2xx ==
    [][(/\ GetStep
        /\ ResponseOfStep.exc = ""
        /\ ResponseOfStep.status \in 200..299
        /\ Contains(ResponseOfStep.ctype, T_html))
       => /\ Len(results') = Len(results) + 1
          /\ results'[Len(results')].url = url
          /\ pc' = "links"]_vars

\* C18, with success read as status 200, the test of line 127: whenever the
\* GET of an allowed URL that is not in visited returns status 200 with a
\* Content-Type that holds "text/html", exactly one record is appended for
\* it and the links of the page that same_domain accepts are appended to the
\* queue; every other response and every exception append no record.  The
\* records are one per such GET, with pairwise distinct URLs.
C18_RecordPer200Html ==
    /\ [][GetStep
            => IF /\ ResponseOfStep.exc = ""
                  /\ ResponseOfStep.status = 200
                  /\ Contains(ResponseOfStep.ctype, T_html)
               THEN /\ url \notin visited
                    /\ can_fetch(rp, url)
                    /\ Len(results') = Len(results) + 1
                    /\ SubSeq(results', 1, Len(results)) = results
                    /\ results'[Len(results')].url = url
                    /\ soup' = Decompose(ResponseOfStep.doc)
                    /\ pc' = "links"
               ELSE /\ results' = results
                    /\ pc' = "loop"]_vars
    /\ [][pc = "links" => queue' = queue \o AcceptedLinks]_vars
    /\ [](/\ RecordUrls(results) = ProcessedUrls
          /\ \A i \in 1..Len(results) : \A j \in 1..Len(results) :
                results[i].url = results[j].url => i = j)

\* C19: in any run of crawl_site the number of page GETs (robots.txt apart)
\* is at most max_pages, because every iteration that made a GET has added
\* its URL to visited when the loop test is evaluated again, after a
\* recorded page and after every failure.
C19_FetchBound ==
    /\ Len(Gets) <= max_pages
    /\ AtBoundary => /\ GetUrls \subseteq visited
                     /\ Len(Gets) <= Cardinality(visited)

\* a run used up max_pages = 2 with one recorded page and one failed GET,
\* and stopped with URLs left in the queue
C19_Witness ==
    /\ pc = "done"
    /\ max_pages = 2
    /\ Len(Gets) = 2
    /\ Len(results) = 1
    /\ queue # <<>>

\* the GETs so far that raised a request error
RequestErrors == {i \in 1..Len(fetched) : fetched[i].error # ""}

\* the books of the pages received so far, page by page in the order of the
\* GETs and, inside a page, in document order
RECURSIVE BooksOfPages(_)
BooksOfPages(n) ==
    IF n = 0 THEN <<>>
    ELSE BooksOfPages(n - 1)
         \o With(fetched[n].page.books, LAMBDA bs :
               With(SelectSeq(bs, LAMBDA b : b.has_h3a), LAMBDA kept :
                   [i \in 1..Len(kept) |-> BookOf(kept[i])]))

\* the pagination loop has ended: the last page had no next link or no
\* article, or the URL given was empty
LoopEnded ==
    \/ fetched = <<>> /\ current_url = <<>>
    \/ /\ fetched # <<>>
       /\ With(fetched[Len(fetched)], LAMBDA last :
             last.error = "" /\ (~last.page.next.a \/ last.page.books = <<>>))

\* C20: the output of scrape_books is all-or-nothing with respect to request
\* errors: the CSV is written only behind the pagination loop (no next link,
\* or a page without books); once the GET of any page raised, no file is
\* written, whatever was collected from earlier pages; and when the loop
\* ends normally with at least one book, the file holds every collected
\* book in page order.
C20_AllOrNothing ==
    /\ books_csv.written
          => /\ books_pc = "done"
             /\ LoopEnded
             /\ RequestErrors = {}
             /\ books_csv.rows = all_books
             /\ books_csv.rows = BooksOfPages(Len(fetched))
    /\ RequestErrors # {}
          => /\ ~books_csv.written
             /\ books_pc = "request_error"
             /\ RequestErrors = {Len(fetched)}
    /\ (books_pc = "done" /\ all_books # <<>>)
          => /\ books_csv.written
             /\ books_csv.rows = all_books

\* the third GET raised after two pages had given books: nothing was written
C20_Witness ==
    /\ books_pc = "request_error"
    /\ Len(fetched) = 3
    /\ fetched[3].error = "HTTPError"
    /\ Len(all_books) >= 3
    /\ ~books_csv.written

====
